---- MODULE Spec2Model ----
(***************************************************************************)
(* A model of the pong game of kalepail/pong-game: the fixed-tick engine   *)
(* (Engine), the entities (Ball, Paddle), the event log (Events), the      *)
(* replay system (ReplaySystem) and the game that drives them (Game,       *)
(* main).                                                                  *)
(*                                                                         *)
(* Numbers.  The program computes in floating point; the model computes in *)
(* fixed point.  A position is an integer number of 1/TICKS_PER_SECOND     *)
(* pixels, a velocity an integer number of pixels per second, so that one  *)
(* tick of motion, position += velocity * TICK_DURATION, is exactly        *)
(* position += velocity.  Angles are millidegrees, sines are scaled by     *)
(* 10000 and taken from a one-degree table with linear interpolation.      *)
(* Wall-clock time is counted in 1/(2*TICKS_PER_SECOND) s, so that a frame *)
(* may last a fraction of a tick.                                          *)
(***************************************************************************)
EXTENDS Integers, Sequences, FiniteSets, TLC

\* ------------------------------------------------------------ constants
CANVAS_WIDTH == 800
CANVAS_HEIGHT == 400
PADDLE_HEIGHT == 80
PADDLE_WIDTH == 10
PADDLE_OFFSET == 30
PADDLE_SPEED == 400
BALL_RADIUS == 8
BALL_INITIAL_SPEED == 300
\* 1.05, in percent
BALL_SPEED_INCREASE_FACTOR == 105
\* 0.3, in tenths
PADDLE_VELOCITY_TRANSFER == 3
\* 0.8, in thousandths
NORMALIZED_POSITION_LIMIT == 800
\* Math.PI / 3, in degrees
MAX_BOUNCE_ANGLE == 60
MAX_SCORE == 5
TICKS_PER_SECOND == 60
POSITION_TOLERANCE == 5
\* 0.2, in tenths
SAFETY_MARGIN_RATIO == 2
\* the setTimeout delays of endGame and endReplay, in milliseconds
END_GAME_DELAY == 100
END_REPLAY_DELAY == 500
\* the frame time cap of gameLoop, 0.1 s, in milliseconds
FRAME_CAP == 100
\* the period of main's setInterval(updateButtons), in milliseconds
BUTTON_INTERVAL == 100

\* ------------------------------------------------------------ arithmetic
Abs(n) == IF n < 0 THEN -n ELSE n
Sign(n) == IF n < 0 THEN -1 ELSE IF n > 0 THEN 1 ELSE 0
Min(a, b) == IF a <= b THEN a ELSE b
Max(a, b) == IF a >= b THEN a ELSE b

\* F applied to a value that is computed once, before F is
With(value, F(_)) == CHOOSE result \in {F(x) : x \in {value}} : TRUE

\* a / b rounded to the nearest integer (b > 0), symmetric about 0
RoundDiv(a, b) == Sign(a) * ((2 * Abs(a) + b) \div (2 * b))

RECURSIVE SqrtSearch(_, _, _)
SqrtSearch(n, lo, hi) ==
    IF hi - lo <= 1 THEN lo
    ELSE With((lo + hi) \div 2, LAMBDA mid :
             IF mid * mid <= n THEN SqrtSearch(n, mid, hi) ELSE SqrtSearch(n, lo, mid))

\* Math.sqrt, to the nearest integer (n < 2^30)
Sqrt(n) == With(SqrtSearch(n, 0, 32768), LAMBDA s : IF n - s * s > s THEN s + 1 ELSE s)

SinTable ==
    << 0, 175, 349, 523, 698, 872, 1045, 1219, 1392, 1564, 1736, 1908, 2079, 2250,
       2419, 2588, 2756, 2924, 3090, 3256, 3420, 3584, 3746, 3907, 4067, 4226, 4384,
       4540, 4695, 4848, 5000, 5150, 5299, 5446, 5592, 5736, 5878, 6018, 6157, 6293,
       6428, 6561, 6691, 6820, 6947, 7071, 7193, 7314, 7431, 7547, 7660, 7771, 7880,
       7986, 8090, 8192, 8290, 8387, 8480, 8572, 8660, 8746, 8829, 8910, 8988, 9063,
       9135, 9205, 9272, 9336, 9397, 9455, 9511, 9563, 9613, 9659, 9703, 9744, 9781,
       9816, 9848, 9877, 9903, 9925, 9945, 9962, 9976, 9986, 9994, 9998, 10000 >>

\* 10000 * sin(a), a in millidegrees, 0 <= a <= 90000
SinQ(a) ==
    LET d == a \div 1000
        f == a % 1000
    IN IF d >= 90 THEN 10000
       ELSE SinTable[d + 1] + RoundDiv((SinTable[d + 2] - SinTable[d + 1]) * f, 1000)

\* Math.sin and Math.cos scaled by 10000, -90000 <= a <= 90000 millidegrees
Sin(a) == IF a < 0 THEN -SinQ(-a) ELSE SinQ(a)
Cos(a) == SinQ(90000 - Abs(a))

RECURSIVE AtanSearch(_, _, _, _)
AtanSearch(lo, hi, num, den) ==
    IF hi - lo <= 1 THEN lo
    ELSE With((lo + hi) \div 2, LAMBDA mid :
             IF SinQ(mid) * den <= num * Cos(mid)
             THEN AtanSearch(mid, hi, num, den)
             ELSE AtanSearch(lo, mid, num, den))

\* Math.atan2(y, x) for x >= 0, in millidegrees
Atan2(y, x) ==
    IF x = 0 THEN Sign(y) * 90000
    ELSE Sign(y) * AtanSearch(0, 90001, Abs(y), x)

\* ------------------------------------------------------------ geometry
\* pixels to position units
Px(n) == n * TICKS_PER_SECOND
Width == Px(CANVAS_WIDTH)
Height == Px(CANVAS_HEIGHT)
Radius == Px(BALL_RADIUS)
PaddleH == Px(PADDLE_HEIGHT)
\* PADDLE_SPEED * TICK_DURATION, in position units
PaddleStep == PADDLE_SPEED

Sides == {"left", "right"}
Other(side) == IF side = "left" THEN "right" ELSE "left"

getCanvasCenter == [x |-> Width \div 2, y |-> Height \div 2]
getPaddleCenterY == Height \div 2 - PaddleH \div 2
\* clampPaddleY that returns y as it is
clampPaddleY_m(y) == y
clampPaddleY(y) == Max(0, Min(Height - PaddleH, y))
getPaddleFaceXLeft == Px(PADDLE_OFFSET + PADDLE_WIDTH)
getPaddleFaceXRight == Px(CANVAS_WIDTH - PADDLE_OFFSET - PADDLE_WIDTH)
PaddleFaceX(side) == IF side = "left" THEN getPaddleFaceXLeft ELSE getPaddleFaceXRight
getSafetyMargin == (PaddleH * SAFETY_MARGIN_RATIO) \div 10

\* ------------------------------------------------------------ Ball
\* A ball is [x, y, vx, vy]; a paddle is [y, velocity].

\* Ball.reset(servingSide) with angleVariation = draw (millidegrees)
BallReset(servingSide, draw) ==
    LET dir == IF servingSide = "left" THEN 1 ELSE -1
    IN [x |-> getCanvasCenter.x, y |-> getCanvasCenter.y,
        vx |-> dir * RoundDiv(Cos(draw) * BALL_INITIAL_SPEED, 10000),
        vy |-> dir * RoundDiv(Sin(draw) * BALL_INITIAL_SPEED, 10000)]

\* Ball.update(TICK_DURATION) that reflects the velocity at a wall and leaves
\* the position where the step took it
BallUpdate_m(b) ==
    LET x1 == b.x + b.vx
        y1 == b.y + b.vy
    IN IF y1 - Radius <= 0
       THEN [x |-> x1, y |-> y1, vx |-> b.vx, vy |-> Abs(b.vy)]
       ELSE IF y1 + Radius >= Height
            THEN [x |-> x1, y |-> y1, vx |-> b.vx, vy |-> -Abs(b.vy)]
            ELSE [x |-> x1, y |-> y1, vx |-> b.vx, vy |-> b.vy]

\* Ball.update(TICK_DURATION)
BallUpdate(b) ==
    LET x1 == b.x + b.vx
        y1 == b.y + b.vy
    IN IF y1 - Radius <= 0
       THEN [x |-> x1, y |-> Radius, vx |-> b.vx, vy |-> Abs(b.vy)]
       ELSE IF y1 + Radius >= Height
            THEN [x |-> x1, y |-> Height - Radius, vx |-> b.vx, vy |-> -Abs(b.vy)]
            ELSE [x |-> x1, y |-> y1, vx |-> b.vx, vy |-> b.vy]

isOutOfBounds(b) == b.x < -Radius \/ b.x > Width + Radius
getScoringPlayer(b) == IF b.x < 0 THEN "right" ELSE "left"

\* the ball at rest in the middle of the canvas (Game.reset, Game.startReplay)
BallAtCenter == [x |-> getCanvasCenter.x, y |-> getCanvasCenter.y, vx |-> 0, vy |-> 0]

\* ------------------------------------------------------------ PhysicsUtils
\* hit position in thousandths of the paddle height, 0..1000
calculateHitPosition(ballY, paddleTop, paddleHeight) ==
    Max(0, Min(1000, RoundDiv((ballY - paddleTop) * 1000, paddleHeight)))

\* normalized position in thousandths, -800..800
calculateNormalizedPosition(hitPosition) ==
    Max(-NORMALIZED_POSITION_LIMIT, Min(NORMALIZED_POSITION_LIMIT, 2 * hitPosition - 1000))

\* bounce angle in millidegrees
calculateBounceAngle(normalizedPosition) == normalizedPosition * MAX_BOUNCE_ANGLE

calculatePostCollisionSpeed(currentSpeed) ==
    RoundDiv(currentSpeed * BALL_SPEED_INCREASE_FACTOR, 100)

applyPaddleVelocityTransfer(ballVelocityY, paddleVelocity) ==
    ballVelocityY + RoundDiv(paddleVelocity * PADDLE_VELOCITY_TRANSFER, 10)

\* ------------------------------------------------------------ Paddle
PaddleAtCenter == [y |-> getPaddleCenterY, velocity |-> 0]

UpKey(side) == IF side = "left" THEN "w" ELSE "ArrowUp"
DownKey(side) == IF side = "left" THEN "s" ELSE "ArrowDown"
KeyNames == {"w", "s", "ArrowUp", "ArrowDown"}

\* Paddle.update(TICK_DURATION, keys); velocity = (y - prevY) / TICK_DURATION
PaddleUpdate(p, side, keys) ==
    LET y1 == IF UpKey(side) \in keys THEN p.y - PaddleStep ELSE p.y
        y2 == IF DownKey(side) \in keys THEN y1 + PaddleStep ELSE y1
        y3 == Max(0, Min(Height - PaddleH, y2))
    IN [y |-> y3, velocity |-> y3 - p.y]

\* the overlap test of Paddle.checkCollision on the ball's and the paddle's spans
SpansOverlap(ballY, paddleY) ==
    ballY + Radius >= paddleY /\ ballY - Radius <= paddleY + PaddleH

\* checkCollision that puts the ball on the face itself
checkCollision_m(p, side, b) ==
    LET paddleFaceX == PaddleFaceX(side)
    IN IF Abs(b.x - paddleFaceX) > Radius THEN [hit |-> FALSE, ball |-> b]
       ELSE IF SpansOverlap(b.y, p.y)
            THEN LET hitPosition == calculateHitPosition(b.y, p.y, PaddleH)
                     bounceAngle ==
                         calculateBounceAngle(calculateNormalizedPosition(hitPosition))
                     approachSpeed == Sqrt(b.vx * b.vx + b.vy * b.vy)
                     speed == calculatePostCollisionSpeed(approachSpeed)
                     dir == IF side = "left" THEN 1 ELSE -1
                 IN [hit |-> TRUE,
                     ball |-> [x |-> paddleFaceX,
                               y |-> b.y,
                               vx |-> dir * RoundDiv(Cos(bounceAngle) * speed, 10000),
                               vy |-> applyPaddleVelocityTransfer(
                                          RoundDiv(Sin(bounceAngle) * speed, 10000),
                                          p.velocity)]]
            ELSE [hit |-> FALSE, ball |-> b]

\* Paddle.checkCollision(ball): [hit, ball]
checkCollision(p, side, b) ==
    LET paddleFaceX == PaddleFaceX(side)
    IN IF Abs(b.x - paddleFaceX) > Radius THEN [hit |-> FALSE, ball |-> b]
       ELSE IF SpansOverlap(b.y, p.y)
            THEN LET hitPosition == calculateHitPosition(b.y, p.y, PaddleH)
                     bounceAngle ==
                         calculateBounceAngle(calculateNormalizedPosition(hitPosition))
                     approachSpeed == Sqrt(b.vx * b.vx + b.vy * b.vy)
                     speed == calculatePostCollisionSpeed(approachSpeed)
                     dir == IF side = "left" THEN 1 ELSE -1
                 IN [hit |-> TRUE,
                     ball |-> [x |-> paddleFaceX + dir * Radius,
                               y |-> b.y,
                               vx |-> dir * RoundDiv(Cos(bounceAngle) * speed, 10000),
                               vy |-> applyPaddleVelocityTransfer(
                                          RoundDiv(Sin(bounceAngle) * speed, 10000),
                                          p.velocity)]]
            ELSE [hit |-> FALSE, ball |-> b]

\* ------------------------------------------------------------ Engine helpers
RECURSIVE FoldY(_)
FoldY(y) ==
    IF y < Radius THEN FoldY(2 * Radius - y)
    ELSE IF y > Height - Radius THEN FoldY(2 * (Height - Radius) - y)
    ELSE y

NoPrediction == -1

\* predictBallY that extrapolates y with the speed of the ball, not with its
\* vertical velocity
predictBallY_speed(targetX, b) ==
    LET dx == targetX - b.x
    IN IF b.vx = 0 \/ dx * b.vx < 0 THEN NoPrediction
       ELSE FoldY(b.y + RoundDiv((Abs(b.vx) + Abs(b.vy)) * dx * Sign(b.vx), Abs(b.vx)))

\* predictBallY that also gives up on a ball that is at targetX already
predictBallY_m(targetX, b) ==
    LET dx == targetX - b.x
    IN IF b.vx = 0 \/ dx * b.vx <= 0 THEN NoPrediction
       ELSE FoldY(b.y + RoundDiv(b.vy * dx * Sign(b.vx), Abs(b.vx)))

\* Engine.predictBallY(targetX, ball); NoPrediction stands for null.  The
\* velocities of the model are whole numbers, of which only 0 is below the
\* epsilon of 0.001.
predictBallY(targetX, b) ==
    LET dx == targetX - b.x
    IN IF b.vx = 0 \/ dx * b.vx < 0 THEN NoPrediction
       ELSE FoldY(b.y + RoundDiv(b.vy * dx * Sign(b.vx), Abs(b.vx)))

\* Engine.wouldPaddleIntercept(ball, side, paddleY)
wouldPaddleIntercept(b, side, paddleY) ==
    LET ballY == predictBallY(PaddleFaceX(side), b)
    IN IF ballY = NoPrediction THEN FALSE ELSE SpansOverlap(ballY, paddleY)

\* movePaddleToTarget that takes a full step whenever the target is not hit
\* exactly
movePaddleToTarget_m(p, targetY) ==
    LET distance == targetY - p.y
    IN IF distance = 0
       THEN [reached |-> TRUE, paddle |-> [p EXCEPT !.y = clampPaddleY(targetY)]]
       ELSE [reached |-> FALSE,
             paddle |-> [p EXCEPT !.y = clampPaddleY(p.y + Sign(distance) * PaddleStep)]]

\* Engine.movePaddleToTarget(paddle, targetY, TICK_DURATION): [reached, paddle]
movePaddleToTarget(p, targetY) ==
    LET distance == targetY - p.y
    IN IF Abs(distance) < PaddleStep
       THEN [reached |-> TRUE, paddle |-> [p EXCEPT !.y = clampPaddleY(targetY)]]
       ELSE [reached |-> FALSE,
             paddle |-> [p EXCEPT !.y = clampPaddleY(p.y + Sign(distance) * PaddleStep)]]

\* calculateMissPosition without the safety margin below the ball
calculateMissPosition_m(b, missingSide, currentPaddleY) ==
    LET ballHitY == predictBallY(PaddleFaceX(missingSide), b)
        avoidAbove == (ballHitY - Radius) - PaddleH - getSafetyMargin
        avoidBelow == ballHitY + Radius
        targetY ==
            IF avoidAbove >= 0
            THEN IF avoidBelow + PaddleH <= Height
                 THEN IF Abs(currentPaddleY - avoidAbove) <= Abs(currentPaddleY - avoidBelow)
                      THEN avoidAbove ELSE avoidBelow
                 ELSE avoidAbove
            ELSE IF avoidBelow + PaddleH <= Height
                 THEN avoidBelow
                 ELSE IF Abs(ballHitY) > Abs(ballHitY - Height)
                      THEN 0 ELSE Height - PaddleH
    IN IF ballHitY = NoPrediction THEN getPaddleCenterY ELSE clampPaddleY(targetY)

\* calculateMissPosition that prefers to pass above the ball wherever it can
calculateMissPosition_above(b, missingSide, currentPaddleY) ==
    LET ballHitY == predictBallY(PaddleFaceX(missingSide), b)
        avoidAbove == (ballHitY - Radius) - PaddleH - getSafetyMargin
        avoidBelow == (ballHitY + Radius) + getSafetyMargin
        targetY ==
            IF avoidAbove >= 0
            THEN avoidAbove
            ELSE IF avoidBelow + PaddleH <= Height
                 THEN avoidBelow
                 ELSE IF Abs(ballHitY) > Abs(ballHitY - Height)
                      THEN 0 ELSE Height - PaddleH
    IN IF ballHitY = NoPrediction THEN getPaddleCenterY ELSE clampPaddleY(targetY)

\* Engine.calculateMissPosition(ball, missingSide, currentPaddleY)
calculateMissPosition(b, missingSide, currentPaddleY) ==
    LET ballHitY == predictBallY(PaddleFaceX(missingSide), b)
        avoidAbove == (ballHitY - Radius) - PaddleH - getSafetyMargin
        avoidBelow == (ballHitY + Radius) + getSafetyMargin
        targetY ==
            IF avoidAbove >= 0
            THEN IF avoidBelow + PaddleH <= Height
                 THEN IF Abs(currentPaddleY - avoidAbove) <= Abs(currentPaddleY - avoidBelow)
                      THEN avoidAbove ELSE avoidBelow
                 ELSE avoidAbove
            ELSE IF avoidBelow + PaddleH <= Height
                 THEN avoidBelow
                 ELSE IF Abs(ballHitY) > Abs(ballHitY - Height)
                      THEN 0 ELSE Height - PaddleH
    IN IF ballHitY = NoPrediction THEN getPaddleCenterY ELSE clampPaddleY(targetY)

\* ------------------------------------------------------------ time
\* wall-clock units per second, and milliseconds in wall-clock units
TimeResolution == 2 * TICKS_PER_SECOND
Ms(n) == (n * TimeResolution) \div 1000
\* GameUtils.getTickDuration() = 1 / TICKS_PER_SECOND
TICK_DURATION == TimeResolution \div TICKS_PER_SECOND

\* ------------------------------------------------------------ Events
Vec(x, y) == [x |-> x, y |-> y]
PaddleCenter(p) == p.y + PaddleH \div 2

\* Events.logHitEvent / logServeEvent / logScoreEvent build these records
HitEvent(b, player, lp, rp, tick) ==
    [type |-> "hit", tick |-> tick, position |-> Vec(b.x, b.y), velocity |-> Vec(b.vx, b.vy),
     player |-> player, paddlePositions |-> [left |-> lp, right |-> rp]]
\* a Serve logged without its tick: logServeEvent's default
ServeEvent_m(b, player, lp, rp, tick) ==
    [type |-> "serve", tick |-> 0, velocity |-> Vec(b.vx, b.vy),
     player |-> player, paddlePositions |-> [left |-> lp, right |-> rp]]

ServeEvent(b, player, lp, rp, tick) ==
    [type |-> "serve", tick |-> tick, velocity |-> Vec(b.vx, b.vy),
     player |-> player, paddlePositions |-> [left |-> lp, right |-> rp]]
ScoreEvent(b, player, tick) ==
    [type |-> "score", tick |-> tick, position |-> Vec(b.x, b.y), velocity |-> Vec(b.vx, b.vy),
     player |-> player]

\* ------------------------------------------------------------ Engine
\* The state the tick loop works on is a record w of the objects it touches:
\* ball, leftPaddle, rightPaddle, engine, game, events (eventLogger.events),
\* timers, serves (the number of serves so far) and ticks, the values of
\* currentTick handed to onPhysicsTick.

PhysicsState(b, lp, rp) ==
    [ball |-> Vec(b.x, b.y), leftPaddle |-> lp.y, rightPaddle |-> rp.y]

syncCurrentState(e, b, lp, rp) == [e EXCEPT !.currentState = PhysicsState(b, lp, rp)]
syncPreviousState(e) == [e EXCEPT !.previousState = e.currentState]
syncBothStatesForReset(e, b, lp, rp) == syncPreviousState(syncCurrentState(e, b, lp, rp))

resetStates(e) ==
    [currentTick |-> 0, tickTimer |-> 0,
     currentState |-> PhysicsState(BallAtCenter, PaddleAtCenter, PaddleAtCenter),
     previousState |-> PhysicsState(BallAtCenter, PaddleAtCenter, PaddleAtCenter)]

\* the outcome of a tick that left the ball at b
TickResult(b, leftHit, rightHit) ==
    [leftHit |-> leftHit, rightHit |-> rightHit, ballOutOfBounds |-> isOutOfBounds(b),
     scoringPlayer |-> IF isOutOfBounds(b) THEN getScoringPlayer(b) ELSE "none"]

\* Engine.updatePhysicsTick: [w, result]
\* updatePhysicsTick whose replay branch, too, moves the paddles by the keys
updatePhysicsTick_m(w, keys, mode) ==
    With(PaddleUpdate(w.leftPaddle, "left", keys), LAMBDA lp :
    With(PaddleUpdate(w.rightPaddle, "right", keys), LAMBDA rp :
        IF mode = "play"
        THEN With(checkCollision(lp, "left", w.ball), LAMBDA cl :
             With(checkCollision(rp, "right", cl.ball), LAMBDA cr :
             With(BallUpdate(cr.ball), LAMBDA b :
                 [w |-> [w EXCEPT !.leftPaddle = lp, !.rightPaddle = rp, !.ball = b],
                  result |-> TickResult(b, cl.hit, cr.hit)])))
        ELSE With(BallUpdate(w.ball), LAMBDA b :
                 [w |-> [w EXCEPT !.leftPaddle = lp, !.rightPaddle = rp, !.ball = b],
                  result |-> TickResult(b, FALSE, FALSE)])))

updatePhysicsTick(w, keys, mode) ==
    IF mode = "play"
    THEN With(PaddleUpdate(w.leftPaddle, "left", keys), LAMBDA lp :
         With(PaddleUpdate(w.rightPaddle, "right", keys), LAMBDA rp :
         With(checkCollision(lp, "left", w.ball), LAMBDA cl :
         With(checkCollision(rp, "right", cl.ball), LAMBDA cr :
         With(BallUpdate(cr.ball), LAMBDA b :
             [w |-> [w EXCEPT !.leftPaddle = lp, !.rightPaddle = rp, !.ball = b],
              result |-> TickResult(b, cl.hit, cr.hit)])))))
    ELSE With(BallUpdate(w.ball), LAMBDA b :
             [w |-> [w EXCEPT !.ball = b], result |-> TickResult(b, FALSE, FALSE)])

\* ------------------------------------------------------------ Game: play
NoScores == [left |-> 0, right |-> 0, winner |-> "none"]

\* Game.endGame: the reset is deferred by a timer
endGame(w) ==
    [w EXCEPT !.game.isRunning = FALSE,
              !.game.finalScores =
                  [left |-> w.game.leftScore, right |-> w.game.rightScore,
                   winner |-> IF w.game.leftScore >= MAX_SCORE THEN "left" ELSE "right"],
              !.game.animationId = FALSE,
              !.timers = Append(w.timers,
                                [kind |-> "endGame", remaining |-> Ms(END_GAME_DELAY),
                                 message |-> [winner |-> IF w.game.leftScore >= MAX_SCORE
                                                         THEN "left" ELSE "right"]])]

\* the score branch of the callback: the point, then the end of the game or
\* the next serve
onScore(w, scoringPlayer, draw) ==
    With([w EXCEPT
            !.events = Append(@, ScoreEvent(w.ball, scoringPlayer, w.engine.currentTick)),
            !.game.leftScore = IF scoringPlayer = "left" THEN @ + 1 ELSE @,
            !.game.rightScore = IF scoringPlayer = "left" THEN @ ELSE @ + 1],
         LAMBDA w3 :
            IF w3.game.leftScore >= MAX_SCORE \/ w3.game.rightScore >= MAX_SCORE
            THEN endGame(w3)
            ELSE With(BallReset(Other(scoringPlayer), draw), LAMBDA b :
                    [w3 EXCEPT
                       !.ball = b,
                       !.game.lastHitPlayer = "none",
                       !.serves = @ + 1,
                       !.engine = syncBothStatesForReset(@, b, w.leftPaddle, w.rightPaddle),
                       !.events = Append(@, ServeEvent(b, Other(scoringPlayer),
                                                       PaddleCenter(w.leftPaddle),
                                                       PaddleCenter(w.rightPaddle),
                                                       w.engine.currentTick))]))

\* the hit branch of the callback for one side
onHit(w, side) ==
    [w EXCEPT !.game.lastHitPlayer = side,
              !.events = Append(@, HitEvent(w.ball, side, PaddleCenter(w.leftPaddle),
                                            PaddleCenter(w.rightPaddle),
                                            w.engine.currentTick))]

\* the onPhysicsTick callback of Game.gameLoop; draw is the angle variation
\* Math.random() yields should the callback serve
onPhysicsTick(w, result, draw) ==
    With(IF result.leftHit THEN onHit(w, "left") ELSE w, LAMBDA w1 :
    With(IF result.rightHit THEN onHit(w1, "right") ELSE w1, LAMBDA w2 :
        IF result.ballOutOfBounds /\ result.scoringPlayer # "none" /\ w.game.mode = "play"
        THEN onScore(w2, result.scoringPlayer, draw)
        ELSE w2))

\* What a replay tick is observed to do at a paddle face: when the ball's centre
\* passes the face of a side on this tick, the height at which it passes, the
\* paddle of that side, and the type of the event the replay is to consume next.
FaceCrossings(w, after, mode) ==
    LET before == w.ball
        crosses(side) ==
            IF side = "left"
            THEN before.x > PaddleFaceX(side) /\ after.x <= PaddleFaceX(side)
            ELSE before.x < PaddleFaceX(side) /\ after.x >= PaddleFaceX(side)
        next == IF w.replay.isActive /\ w.replay.currentEventIndex < Len(w.replay.events)
                THEN w.replay.events[w.replay.currentEventIndex + 1].type
                ELSE "none"
        one(side) == [side |-> side, ballY |-> predictBallY(PaddleFaceX(side), before),
                      paddleY |-> (IF side = "left" THEN w.leftPaddle ELSE w.rightPaddle).y,
                      next |-> next]
    IN IF mode # "replay" THEN << >>
       ELSE IF crosses("left") THEN << one("left") >>
       ELSE IF crosses("right") THEN << one("right") >>
       ELSE << >>

\* the while loop of Engine.processPhysicsTicks
\* a loop condition that leaves a whole tick in the accumulator
TickDue_m(e) == e.tickTimer > TICK_DURATION

\* the condition of the loop: a whole tick has accumulated
TickDue(e) == e.tickTimer >= TICK_DURATION

\* one pass of the loop body up to the callback: [w, result]
TickStep(w, keys, mode) ==
    With(updatePhysicsTick([w EXCEPT !.engine = syncPreviousState(@)], keys, mode), LAMBDA u :
    With([syncCurrentState(u.w.engine, u.w.ball, u.w.leftPaddle, u.w.rightPaddle)
             EXCEPT !.currentTick = @ + 1, !.tickTimer = @ - TICK_DURATION], LAMBDA e :
        [w |-> [u.w EXCEPT !.engine = e,
                           !.ticks = Append(@, e.currentTick),
                           !.crossings = @ \o FaceCrossings(w, u.w.ball, mode)],
         result |-> u.result]))

RECURSIVE TickLoop(_, _, _, _)
TickLoop(w, keys, mode, draw) ==
    IF TickDue(w.engine)
    THEN With(TickStep(w, keys, mode), LAMBDA u :
         With(onPhysicsTick(u.w, u.result, draw), LAMBDA w1 :
             TickLoop(w1, keys, mode, draw)))
    ELSE w

\* Engine.processPhysicsTicks(frameTime, ..., onPhysicsTick)
processPhysicsTicks(w, frameTime, keys, mode, draw) ==
    With([w EXCEPT !.engine.tickTimer = @ + frameTime], LAMBDA w1 :
        TickLoop(w1, keys, mode, draw))

\* ------------------------------------------------------------ ReplaySystem
\* A pending move is [targetY, eventIndex, type, executed]; NoMove stands for null.
\* Event indices are 0-based as in the source: event i is events[i + 1].
NoMove == [targetY |-> 0, eventIndex |-> 0, type |-> "none", executed |-> FALSE]
NoEvent == [type |-> "none"]
NoVec == [x |-> 0, y |-> 0]

\* the least index i >= from of an event of the given type and player, or -1
NextEventIndex(events, from, type, player) ==
    LET S == {i \in from .. Len(events) - 1 :
                 events[i + 1].type = type /\ events[i + 1].player = player}
    IN IF S = {} THEN -1 ELSE CHOOSE i \in S : \A j \in S : i <= j

\* the least index i >= from of a Score event, or -1
NextScoreIndex(events, from) ==
    LET S == {i \in from .. Len(events) - 1 : events[i + 1].type = "score"}
    IN IF S = {} THEN -1 ELSE CHOOSE i \in S : \A j \in S : i <= j

\* ReplaySystem.calculateOptimalPaddlePosition(hitEvent, PADDLE_HEIGHT).paddleTop
calculateOptimalPaddlePosition(hitEvent) ==
    LET requiredAngle == Atan2(hitEvent.velocity.y, Abs(hitEvent.velocity.x))
        normalizedPosition ==
            Max(-NORMALIZED_POSITION_LIMIT,
                Min(NORMALIZED_POSITION_LIMIT, RoundDiv(requiredAngle, MAX_BOUNCE_ANGLE)))
    IN hitEvent.position.y - RoundDiv((normalizedPosition + 1000) * PaddleH, 2000)

\* the staging target: the recorded centre of the paddle, as a clamped top
PreemptiveY(nextEvent, side) == clampPaddleY(nextEvent.paddlePositions[side] - PaddleH \div 2)

\* a pending move
Move(targetY, eventIndex, type) ==
    [targetY |-> targetY, eventIndex |-> eventIndex, type |-> type, executed |-> FALSE]

\* the Hit case that leaves the hitting side its move when the other side has
\* no later Hit
hitMovements_m(r, hitPlayer, otherPlayer, i) ==
    [r EXCEPT
       !.pendingMoves[hitPlayer] =
           IF i = -1 THEN @
           ELSE Move(PreemptiveY(r.events[i + 1], hitPlayer), i, "position_for_next_hit"),
       !.pendingMoves[otherPlayer] =
           IF @ = NoMove /\ i # -1
           THEN Move(calculateOptimalPaddlePosition(r.events[i + 1]), i, "hit")
           ELSE @]

\* the Hit case of calculateEventMovements; i is the index of the next Hit by
\* the other player, or -1
hitMovements(r, hitPlayer, otherPlayer, i) ==
    [r EXCEPT
       !.pendingMoves[hitPlayer] =
           IF i = -1 THEN NoMove
           ELSE Move(PreemptiveY(r.events[i + 1], hitPlayer), i, "position_for_next_hit"),
       !.pendingMoves[otherPlayer] =
           IF @ = NoMove /\ i # -1
           THEN Move(calculateOptimalPaddlePosition(r.events[i + 1]), i, "hit")
           ELSE @]

\* the Serve case that stages the server where the Hit records the receiver
serveMovements_m(r, servingPlayer, receivingPlayer, i) ==
    IF i = -1
    THEN [r EXCEPT !.pendingMoves = [left |-> NoMove, right |-> NoMove]]
    ELSE [r EXCEPT
            !.pendingMoves[receivingPlayer] =
                Move(calculateOptimalPaddlePosition(r.events[i + 1]), i, "hit"),
            !.pendingMoves[servingPlayer] =
                Move(PreemptiveY(r.events[i + 1], receivingPlayer), i,
                     "position_for_serve_followup")]

\* the Serve case; i is the index of the next Hit by the receiving player, or -1
serveMovements(r, servingPlayer, receivingPlayer, i) ==
    IF i = -1
    THEN [r EXCEPT !.pendingMoves = [left |-> NoMove, right |-> NoMove]]
    ELSE [r EXCEPT
            !.pendingMoves[receivingPlayer] =
                Move(calculateOptimalPaddlePosition(r.events[i + 1]), i, "hit"),
            !.pendingMoves[servingPlayer] =
                Move(PreemptiveY(r.events[i + 1], servingPlayer), i,
                     "position_for_serve_followup")]

\* calculateEventMovements whose Score case clears the move of the side the
\* ball moves away from
calculateEventMovements_m(r, event) ==
    IF event.type = "hit"
    THEN With(NextEventIndex(r.events, r.currentEventIndex + 1, "hit", Other(event.player)),
              LAMBDA i : hitMovements(r, event.player, Other(event.player), i))
    ELSE IF event.type = "serve"
    THEN With(NextEventIndex(r.events, r.currentEventIndex + 1, "hit", Other(event.player)),
              LAMBDA i : serveMovements(r, event.player, Other(event.player), i))
    ELSE IF event.type = "score"
    THEN [r EXCEPT !.pendingMoves[IF r.ballVelocity.x < 0 THEN "right" ELSE "left"] = NoMove]
    ELSE r

\* ReplaySystem.calculateEventMovements(event), on the replay record r
calculateEventMovements(r, event) ==
    IF event.type = "hit"
    THEN With(NextEventIndex(r.events, r.currentEventIndex + 1, "hit", Other(event.player)),
              LAMBDA i : hitMovements(r, event.player, Other(event.player), i))
    ELSE IF event.type = "serve"
    THEN With(NextEventIndex(r.events, r.currentEventIndex + 1, "hit", Other(event.player)),
              LAMBDA i : serveMovements(r, event.player, Other(event.player), i))
    ELSE IF event.type = "score"
    THEN [r EXCEPT !.pendingMoves[IF r.ballVelocity.x < 0 THEN "left" ELSE "right"] = NoMove]
    ELSE r

PaddleOf(w, side) == IF side = "left" THEN w.leftPaddle ELSE w.rightPaddle

\* the dodge of setupScoreAvoidance: the move installed for the side that is to
\* miss the Score at index i, if its paddle is or will be in the ball's way
missMove(w, r, missingSide, i, pending) ==
    IF wouldPaddleIntercept(w.ball, missingSide, PaddleOf(w, missingSide).y)
       \/ (pending # NoMove /\ wouldPaddleIntercept(w.ball, missingSide, pending.targetY))
    THEN Move(calculateMissPosition(w.ball, missingSide,
                                    IF pending # NoMove THEN pending.targetY
                                    ELSE PaddleOf(w, missingSide).y),
              i, "miss")
    ELSE pending

\* setupScoreAvoidance without the search for a Hit before the Score
setupScoreAvoidance_m(w) ==
    With(NextScoreIndex(w.replay.events, w.replay.currentEventIndex), LAMBDA i :
    With(IF w.ball.vx < 0 THEN "left" ELSE "right", LAMBDA missingSide :
        IF i # -1
        THEN [w.replay EXCEPT !.pendingMoves[missingSide] =
                 missMove(w, w.replay, missingSide, i, @)]
        ELSE w.replay))

\* ReplaySystem.setupScoreAvoidance(ball, leftPaddle, rightPaddle): the replay
\* record of w after it
setupScoreAvoidance(w) ==
    With(NextScoreIndex(w.replay.events, w.replay.currentEventIndex), LAMBDA i :
    With(IF w.ball.vx < 0 THEN "left" ELSE "right", LAMBDA missingSide :
        IF i # -1
           /\ ~\E j \in w.replay.currentEventIndex .. i - 1 :
                  /\ w.replay.events[j + 1].type = "hit"
                  /\ w.replay.events[j + 1].player = missingSide
        THEN [w.replay EXCEPT !.pendingMoves[missingSide] =
                 missMove(w, w.replay, missingSide, i, @)]
        ELSE w.replay))

\* movePaddle that removes every move whose target is reached
movePaddle_m(p, pendingMove) ==
    IF pendingMove = NoMove THEN [paddle |-> p, move |-> NoMove]
    ELSE With(movePaddleToTarget(p, pendingMove.targetY), LAMBDA result :
            [paddle |-> result.paddle,
             move |-> IF ~result.reached THEN pendingMove ELSE NoMove])

\* ReplaySystem.movePaddle(paddle, TICK_DURATION): [paddle, move]
movePaddle(p, pendingMove) ==
    IF pendingMove = NoMove THEN [paddle |-> p, move |-> NoMove]
    ELSE With(movePaddleToTarget(p, pendingMove.targetY), LAMBDA result :
            [paddle |-> result.paddle,
             move |-> IF ~result.reached THEN pendingMove
                      ELSE IF pendingMove.type \in {"position_for_next_hit",
                                                    "position_for_serve_followup"}
                           THEN NoMove
                           ELSE [pendingMove EXCEPT !.executed = TRUE]])

\* the ball position an event carries: its own for a hit or a score, the
\* centre of the canvas for a serve
EventBallPosition(event) ==
    IF event.type = "serve" THEN Vec(getCanvasCenter.x, getCanvasCenter.y)
    ELSE event.position

\* the copy Events.log*Event appends to the replay log
LoggedCopy(event) ==
    IF event.type = "hit"
    THEN [type |-> "hit", tick |-> event.tick, position |-> event.position,
          velocity |-> event.velocity, player |-> event.player,
          paddlePositions |-> [left |-> event.paddlePositions.left,
                               right |-> event.paddlePositions.right]]
    ELSE IF event.type = "serve"
    THEN [type |-> "serve", tick |-> event.tick, velocity |-> event.velocity,
          player |-> event.player,
          paddlePositions |-> [left |-> event.paddlePositions.left,
                               right |-> event.paddlePositions.right]]
    ELSE [type |-> "score", tick |-> event.tick, position |-> event.position,
          velocity |-> event.velocity, player |-> event.player]

\* ReplaySystem.startReplay(events)
startReplay(r, events) ==
    [r EXCEPT !.events = events,
              !.currentEventIndex = 0,
              !.isActive = TRUE,
              !.log = << >>,
              !.pendingMoves = [left |-> NoMove, right |-> NoMove],
              !.lastProcessedScoreEvent = NoEvent,
              !.ballPosition = IF events = << >> THEN @ ELSE EventBallPosition(events[1]),
              !.ballVelocity = IF events = << >> THEN @ ELSE events[1].velocity]

\* ReplaySystem.stopReplay()
stopReplay(r) == [r EXCEPT !.isActive = FALSE, !.currentEventIndex = 0]

\* the body of the event loop of ReplaySystem.updateTick for one event;
\* c is [r, changed, applied, hits], applied the indices consumed by this call,
\* hits the paddle and ball positions at each Hit it consumed
ConsumeEvent(c, event, w) ==
    With(calculateEventMovements([c.r EXCEPT !.ballPosition = EventBallPosition(event),
                                             !.ballVelocity = event.velocity], event),
         LAMBDA r2 :
            [r |-> [r2 EXCEPT !.log = Append(@, LoggedCopy(event)),
                              !.lastProcessedScoreEvent =
                                  IF event.type = "score" THEN event ELSE @,
                              !.currentEventIndex = @ + 1],
             changed |-> TRUE,
             applied |-> Append(c.applied, c.r.currentEventIndex),
             hits |-> IF event.type = "hit"
                      THEN Append(c.hits, [player |-> event.player,
                                           paddleY |-> PaddleOf(w, event.player).y,
                                           ballY |-> event.position.y])
                      ELSE c.hits])

\* an event that is due a tick early
EventDue_m(event, currentTick) == ~(event.tick > currentTick + 1)

\* the event loop does not break at this event
EventDue(event, currentTick) == ~(event.tick > currentTick)

\* the event loop of ReplaySystem.updateTick
RECURSIVE ProcessEvents(_, _, _)
ProcessEvents(c, currentTick, w) ==
    IF c.r.currentEventIndex < Len(c.r.events)
       /\ EventDue(c.r.events[c.r.currentEventIndex + 1], currentTick)
    THEN With(ConsumeEvent(c, c.r.events[c.r.currentEventIndex + 1], w), LAMBDA c1 :
             ProcessEvents(c1, currentTick, w))
    ELSE c

\* a replay that goes on with the cursor at the end of the log
AtEnd_m(r) == r.currentEventIndex > Len(r.events)

\* the cursor is at the end of the log
AtEnd(r) == r.currentEventIndex >= Len(r.events)

\* the end of updateTick: the ball takes the state of the last event consumed,
\* and the replay stops if the cursor is at the end
finishTick(w, c, currentTick) ==
    [w EXCEPT
       !.replay = IF AtEnd(c.r) THEN stopReplay(c.r) ELSE c.r,
       !.ball = IF c.changed
                THEN [x |-> c.r.ballPosition.x, y |-> c.r.ballPosition.y,
                      vx |-> c.r.ballVelocity.x, vy |-> c.r.ballVelocity.y]
                ELSE @,
       !.changed = c.changed,
       !.called = Append(@, currentTick),
       !.applied = c.applied,
       !.hits = c.hits,
       !.ran = TRUE,
       !.cursor = c.r.currentEventIndex,
       !.cursorAfter = IF AtEnd(c.r) THEN stopReplay(c.r).currentEventIndex
                       ELSE c.r.currentEventIndex,
       !.activeAfter = ~AtEnd(c.r)]

\* the paddles of w moved by their pending moves of the replay record r
movePaddles(w, r) ==
    With(movePaddle(w.leftPaddle, r.pendingMoves.left), LAMBDA ml :
    With(movePaddle(w.rightPaddle, r.pendingMoves.right), LAMBDA mr :
        [w EXCEPT !.leftPaddle = ml.paddle, !.rightPaddle = mr.paddle,
                  !.replay = [r EXCEPT !.pendingMoves = [left |-> ml.move,
                                                         right |-> mr.move]]]))

\* updateTick that moves the paddles before it looks for a Score to avoid
updateTick_m(w, currentTick) ==
    IF ~w.replay.isActive \/ w.replay.events = << >>
    THEN [w EXCEPT !.changed = FALSE, !.called = Append(@, currentTick)]
    ELSE With(movePaddles(w, [w.replay EXCEPT !.lastProcessedScoreEvent = NoEvent]),
              LAMBDA w1 :
         With(setupScoreAvoidance(w1), LAMBDA r1 :
         With(ProcessEvents([r |-> r1, changed |-> FALSE, applied |-> << >>,
                             hits |-> << >>], currentTick, w1), LAMBDA c :
             finishTick(w1, c, currentTick))))

\* ReplaySystem.updateTick(currentTick, ball, leftPaddle, rightPaddle), on the
\* record w; w.changed is the value it returns
updateTick(w, currentTick) ==
    IF ~w.replay.isActive \/ w.replay.events = << >>
    THEN [w EXCEPT !.changed = FALSE, !.called = Append(@, currentTick)]
    ELSE With(setupScoreAvoidance([w EXCEPT !.replay.lastProcessedScoreEvent = NoEvent]),
              LAMBDA r1 :
         With(movePaddles(w, r1), LAMBDA w1 :
         With(ProcessEvents([r |-> w1.replay, changed |-> FALSE, applied |-> << >>,
                             hits |-> << >>], currentTick, w1), LAMBDA c :
             finishTick(w1, c, currentTick))))

\* ------------------------------------------------------------ Events: import, compare
\* A payload is text: either text JSON.parse rejects, or the JSON text of a
\* value.  A value is an array of event records, or a number.  In the text of
\* an array a number is its sign and its digits, a vector the texts of x and
\* y, and an event the texts of the properties it has.

\* the text JSON.stringify writes for a finite number, without its sign
NumText_m(n) == [neg |-> FALSE, digits |-> Abs(n)]

\* the text JSON.stringify writes for a finite number
NumText(n) == [neg |-> n < 0, digits |-> Abs(n)]

\* the number JSON.parse reads from the text of a number
TextNum(t) == IF t.neg THEN 0 - t.digits ELSE t.digits

VecText(v) == [x |-> NumText(v.x), y |-> NumText(v.y)]
TextVec(t) == Vec(TextNum(t.x), TextNum(t.y))
PairText(p) == [left |-> NumText(p.left), right |-> NumText(p.right)]
TextPair(t) == [left |-> TextNum(t.left), right |-> TextNum(t.right)]

\* JSON.stringify of one event: its own properties, in the order they were set
EventText(e) ==
    CASE e.type = "hit" ->
            [type |-> "hit", tick |-> NumText(e.tick), position |-> VecText(e.position),
             velocity |-> VecText(e.velocity), player |-> e.player,
             paddlePositions |-> PairText(e.paddlePositions)]
      [] e.type = "serve" ->
            [type |-> "serve", tick |-> NumText(e.tick), velocity |-> VecText(e.velocity),
             player |-> e.player, paddlePositions |-> PairText(e.paddlePositions)]
      [] OTHER ->
            [type |-> "score", tick |-> NumText(e.tick), position |-> VecText(e.position),
             velocity |-> VecText(e.velocity), player |-> e.player]

\* JSON.parse of the text of one event
TextEvent(t) ==
    CASE t.type = "hit" ->
            [type |-> "hit", tick |-> TextNum(t.tick), position |-> TextVec(t.position),
             velocity |-> TextVec(t.velocity), player |-> t.player,
             paddlePositions |-> TextPair(t.paddlePositions)]
      [] t.type = "serve" ->
            [type |-> "serve", tick |-> TextNum(t.tick), velocity |-> TextVec(t.velocity),
             player |-> t.player, paddlePositions |-> TextPair(t.paddlePositions)]
      [] OTHER ->
            [type |-> "score", tick |-> TextNum(t.tick), position |-> TextVec(t.position),
             velocity |-> TextVec(t.velocity), player |-> t.player]

\* JSON.stringify of an array of events
Stringify(events) == [i \in 1 .. Len(events) |-> EventText(events[i])]

Unparsable == [syntax |-> "invalid", shape |-> "none", events |-> << >>]
JsonNumber == [syntax |-> "json", shape |-> "number", events |-> << >>]
JsonArray(events) == [syntax |-> "json", shape |-> "array", events |-> Stringify(events)]

\* JSON.parse(jsonString): [ok, shape, events]; ok = FALSE when it throws
JsonParse(payload) ==
    [ok |-> payload.syntax = "json", shape |-> payload.shape,
     events |-> [i \in 1 .. Len(payload.events) |-> TextEvent(payload.events[i])]]

\* Events.exportLog(): JSON.stringify(this.events)
exportLog(logger) ==
    [syntax |-> "json", shape |-> logger.shape, events |-> Stringify(logger.events)]

\* Events.importLog(jsonString): [success, logger]
importLog(logger, payload) ==
    LET parsed == JsonParse(payload)
    IN IF parsed.ok
       THEN [success |-> TRUE, logger |-> [shape |-> parsed.shape, events |-> parsed.events]]
       ELSE [success |-> FALSE, logger |-> logger]

\* events.length > 0, which is false of a value without a length
hasEvents(logger) == logger.shape = "array" /\ logger.events # << >>

\* compareWith without the test that the two logs have the same length
compareWith_m(thisEvents, otherEvents) ==
    LET n == Min(Len(thisEvents), Len(otherEvents))
        matches(i) ==
            LET e1 == thisEvents[i]
                e2 == otherEvents[i]
            IN e1.type = e2.type
               /\ (e1.type \in {"hit", "score"} =>
                      /\ Abs(e1.position.x - e2.position.x) < Px(POSITION_TOLERANCE)
                      /\ Abs(e1.position.y - e2.position.y) < Px(POSITION_TOLERANCE))
        matching == Cardinality({i \in 1 .. n : matches(i)})
    IN [original |-> Len(thisEvents), replay |-> Len(otherEvents), matching |-> matching,
        identical |-> matching = n]

\* Events.compareWith(otherLogger) on the two event arrays
compareWith(thisEvents, otherEvents) ==
    LET n == Min(Len(thisEvents), Len(otherEvents))
        matches(i) ==
            LET e1 == thisEvents[i]
                e2 == otherEvents[i]
            IN e1.type = e2.type
               /\ (e1.type \in {"hit", "score"} =>
                      /\ Abs(e1.position.x - e2.position.x) < Px(POSITION_TOLERANCE)
                      /\ Abs(e1.position.y - e2.position.y) < Px(POSITION_TOLERANCE))
        matching == Cardinality({i \in 1 .. n : matches(i)})
    IN [original |-> Len(thisEvents), replay |-> Len(otherEvents), matching |-> matching,
        identical |-> matching = Len(thisEvents) /\ Len(thisEvents) = Len(otherEvents)]

\* ------------------------------------------------------------ Game
\* The handlers below work on a record w of the whole program state: the
\* fields of the tick loop and keys, logger (eventLogger), replay, disabled
\* (the buttons that are disabled).

Buttons == {"startBtn", "replayBtn", "exportBtn", "importBtn"}

SetDisabled(disabled, buttons, value) ==
    IF value THEN disabled \cup buttons ELSE disabled \ buttons

\* Game.reset(clearLogs) up to the handling of the logs
resetGame(w, lp, rp) ==
    [w EXCEPT
       !.game.isRunning = FALSE, !.game.mode = "play",
       !.game.leftScore = 0, !.game.rightScore = 0,
       !.game.lastHitPlayer = "none", !.game.animationId = FALSE,
       !.ball = BallAtCenter, !.leftPaddle = lp, !.rightPaddle = rp,
       !.engine = syncBothStatesForReset(resetStates(@), BallAtCenter, lp, rp),
       !.disabled = SetDisabled(@, {"startBtn"}, FALSE),
       !.replay = stopReplay(@)]

\* Game.reset(clearLogs)
reset(w, clearLogs) ==
    With(resetGame(w, [w.leftPaddle EXCEPT !.y = getPaddleCenterY],
                   [w.rightPaddle EXCEPT !.y = getPaddleCenterY]), LAMBDA w1 :
        IF clearLogs
        THEN [w1 EXCEPT !.game.finalScores = NoScores,
                        !.events = << >>, !.shape = "array",
                        !.replay.log = << >>,
                        !.disabled = SetDisabled(@, {"replayBtn", "exportBtn"}, TRUE)]
        ELSE [w1 EXCEPT !.disabled =
                 SetDisabled(@, {"replayBtn", "exportBtn"},
                             ~hasEvents([shape |-> w.shape, events |-> w.events]))])

\* Game.start()
start(w, draw) ==
    With(BallReset("left", draw), LAMBDA b :
        [w EXCEPT
           !.game = [isRunning |-> TRUE, mode |-> "play", leftScore |-> 0, rightScore |-> 0,
                     lastHitPlayer |-> "none", finalScores |-> NoScores,
                     animationId |-> TRUE],
           !.replay = [(IF w.game.mode = "replay" THEN stopReplay(@) ELSE @)
                          EXCEPT !.log = << >>],
           !.ball = b, !.leftPaddle = PaddleAtCenter, !.rightPaddle = PaddleAtCenter,
           !.engine = syncBothStatesForReset(resetStates(@), b, PaddleAtCenter,
                                             PaddleAtCenter),
           !.events = << ServeEvent(b, "left", PaddleCenter(PaddleAtCenter),
                                    PaddleCenter(PaddleAtCenter), 0) >>,
           !.shape = "array",
           !.serves = 1,
           !.disabled = SetDisabled(@, {"startBtn", "replayBtn", "exportBtn"}, TRUE)])

\* Game.startReplay() up to the call of replaySystem.startReplay
startReplayFields(w) ==
    [w EXCEPT
       !.game.mode = "replay", !.game.isRunning = TRUE,
       !.game.leftScore = 0, !.game.rightScore = 0,
       !.leftPaddle = PaddleAtCenter, !.rightPaddle = PaddleAtCenter,
       !.ball = BallAtCenter,
       !.engine = syncBothStatesForReset(resetStates(@), BallAtCenter,
                                         PaddleAtCenter, PaddleAtCenter),
       !.disabled = SetDisabled(@, {"startBtn", "replayBtn"}, TRUE)]

\* Game.startReplay(); spreading a value that is no array throws after the
\* game's own fields are set
startReplayGame(w) ==
    IF w.shape = "array" /\ w.events = << >> THEN w
    ELSE IF w.shape # "array" THEN startReplayFields(w)
    ELSE [startReplayFields(w) EXCEPT !.replay = startReplay(@, w.events),
                                      !.game.animationId = TRUE]

\* Game.endReplay(): the reset is deferred by a timer
endReplay(w) ==
    [w EXCEPT !.game.mode = "play", !.game.isRunning = FALSE, !.game.animationId = FALSE,
              !.timers = Append(w.timers,
                                [kind |-> "endReplay", remaining |-> Ms(END_REPLAY_DELAY),
                                 message |-> IF w.shape = "array"
                                             THEN compareWith(w.events, w.replay.log)
                                             ELSE [original |-> -1, replay |-> Len(w.replay.log),
                                                   matching |-> 0, identical |-> FALSE]])]

\* the score branch of the replay branch
replayScore(w, scoreEvent) ==
    With([w EXCEPT
            !.game.leftScore = IF scoreEvent.player = "left" THEN @ + 1 ELSE @,
            !.game.rightScore = IF scoreEvent.player = "left" THEN @ ELSE @ + 1,
            !.engine = syncBothStatesForReset(@, w.ball, w.leftPaddle, w.rightPaddle)],
         LAMBDA w1 :
            IF w1.game.leftScore >= MAX_SCORE \/ w1.game.rightScore >= MAX_SCORE
            THEN [w1 EXCEPT !.replay = stopReplay(@)]
            ELSE w1)

\* the replay branch of Game.gameLoop, run once after the tick loop
replayBranch(w) ==
    With(updateTick(w, w.engine.currentTick), LAMBDA w1 :
    With(IF w1.changed
         THEN [w1 EXCEPT !.engine = syncCurrentState(@, w1.ball, w1.leftPaddle,
                                                     w1.rightPaddle)]
         ELSE w1, LAMBDA w2 :
    With(IF w2.replay.lastProcessedScoreEvent = NoEvent THEN w2
         ELSE replayScore(w2, w2.replay.lastProcessedScoreEvent), LAMBDA w3 :
        IF ~w3.replay.isActive THEN endReplay(w3) ELSE w3)))

\* Game.gameLoop(currentTime) with frameTime already capped, followed by
\* requestAnimationFrame
gameLoop(w, frameTime, draw) ==
    IF w.game.isRunning
    THEN With(processPhysicsTicks(w, frameTime, w.keys, w.game.mode, draw), LAMBDA wp :
             [(IF wp.game.mode = "replay" THEN replayBranch(wp) ELSE wp)
                 EXCEPT !.game.animationId = TRUE])
    ELSE [w EXCEPT !.game.animationId = TRUE]

\* ------------------------------------------------------------ Game with its own tick loop
\* src/js/Game.ts keeps the tick loop and the physics of a tick in the Game
\* class itself; its other handlers set the same fields as those above.

\* the play branch of Game.updatePhysicsTick(): the events are logged at the
\* tick being computed, a Hit before the ball moves
Game_playTick(w, draw) ==
    With(PaddleUpdate(w.leftPaddle, "left", w.keys), LAMBDA lp :
    With(PaddleUpdate(w.rightPaddle, "right", w.keys), LAMBDA rp :
    With(checkCollision(lp, "left", w.ball), LAMBDA cl :
    With([w EXCEPT !.leftPaddle = lp, !.rightPaddle = rp, !.ball = cl.ball], LAMBDA w1 :
    With(IF cl.hit THEN onHit(w1, "left") ELSE w1, LAMBDA w2 :
    With(checkCollision(rp, "right", w2.ball), LAMBDA cr :
    With(IF cr.hit THEN onHit([w2 EXCEPT !.ball = cr.ball], "right")
         ELSE [w2 EXCEPT !.ball = cr.ball], LAMBDA w3 :
    With([w3 EXCEPT !.ball = BallUpdate(@)], LAMBDA w4 :
        IF isOutOfBounds(w4.ball)
        THEN onScore(w4, getScoringPlayer(w4.ball), draw)
        ELSE w4))))))))

\* the replay branch of Game.updatePhysicsTick()
Game_replayTick(w) ==
    With(updateTick(w, w.engine.currentTick), LAMBDA w1 :
    With(IF w1.changed
         THEN [w1 EXCEPT !.engine = syncBothStatesForReset(@, w1.ball, w1.leftPaddle,
                                                           w1.rightPaddle)]
         ELSE With(BallUpdate(w1.ball), LAMBDA b :
                 [w1 EXCEPT !.ball = b,
                            !.engine = syncCurrentState(@, b, w1.leftPaddle, w1.rightPaddle)]),
         LAMBDA w2 :
    With(IF w2.replay.lastProcessedScoreEvent = NoEvent THEN w2
         ELSE [w2 EXCEPT
                 !.game.leftScore =
                     IF w2.replay.lastProcessedScoreEvent.player = "left" THEN @ + 1 ELSE @,
                 !.game.rightScore =
                     IF w2.replay.lastProcessedScoreEvent.player = "left" THEN @ ELSE @ + 1,
                 !.engine = syncBothStatesForReset(@, w2.ball, w2.leftPaddle, w2.rightPaddle)],
         LAMBDA w3 :
    With(IF w3.game.leftScore >= MAX_SCORE \/ w3.game.rightScore >= MAX_SCORE
         THEN [w3 EXCEPT !.replay = stopReplay(@)]
         ELSE w3, LAMBDA w4 :
        IF ~w4.replay.isActive THEN endReplay(w4) ELSE w4))))

\* Game.updatePhysicsTick()
Game_updatePhysicsTick(w, draw) ==
    IF w.game.mode = "play" THEN Game_playTick(w, draw)
    ELSE IF w.game.mode = "replay" THEN Game_replayTick(w)
    ELSE w

\* the while loop of Game.gameLoop
RECURSIVE Game_TickLoop(_, _)
Game_TickLoop(w, draw) ==
    IF TickDue(w.engine)
    THEN With(Game_updatePhysicsTick([w EXCEPT !.engine = syncPreviousState(@),
                                               !.ticks = Append(@, w.engine.currentTick)],
                                     draw), LAMBDA w1 :
         With([syncCurrentState(w1.engine, w1.ball, w1.leftPaddle, w1.rightPaddle)
                  EXCEPT !.currentTick = @ + 1, !.tickTimer = @ - TICK_DURATION], LAMBDA e :
             Game_TickLoop([w1 EXCEPT !.engine = e], draw)))
    ELSE w

\* Game.gameLoop(currentTime) of src/js/Game.ts with frameTime already capped,
\* followed by requestAnimationFrame
Game_gameLoop(w, frameTime, draw) ==
    IF w.game.isRunning
    THEN With(Game_TickLoop([w EXCEPT !.engine.tickTimer = @ + frameTime], draw), LAMBDA w1 :
             [w1 EXCEPT !.game.animationId = TRUE])
    ELSE [w EXCEPT !.game.animationId = TRUE]

\* the points of a side in an array of events
ScoredBy(events, side) ==
    Cardinality({i \in 1 .. Len(events) : events[i].type = "score" /\ events[i].player = side})

\* the success branch of handleFileImport for an array: the final scores, the
\* reset that keeps the log, and the buttons
importedArray(w) ==
    With([left |-> ScoredBy(w.events, "left"), right |-> ScoredBy(w.events, "right")],
         LAMBDA n :
    With([w EXCEPT !.game.finalScores =
             IF n.left >= MAX_SCORE \/ n.right >= MAX_SCORE
             THEN [left |-> n.left, right |-> n.right,
                   winner |-> IF n.left >= MAX_SCORE THEN "left" ELSE "right"]
             ELSE @], LAMBDA w1 :
        [reset(w1, FALSE) EXCEPT
            !.disabled = SetDisabled(@, {"replayBtn", "exportBtn"}, FALSE)]))

\* The body of handleFileImport's reader.onload.  Iterating a value that is no
\* array throws after the log is replaced; the throw is caught and, like a
\* false from importLog, ends in an alert that the import failed.
handleFileImport(w, payload) ==
    With(importLog([shape |-> w.shape, events |-> w.events], payload), LAMBDA imp :
    With([w EXCEPT !.shape = imp.logger.shape, !.events = imp.logger.events,
                   !.payload = payload, !.success = imp.success,
                   !.failed = ~imp.success \/ imp.logger.shape # "array"], LAMBDA w1 :
        IF imp.success /\ imp.logger.shape = "array" THEN importedArray(w1) ELSE w1))

\* updateButtons of main, run every BUTTON_INTERVAL milliseconds
updateButtons(w) ==
    [w EXCEPT !.disabled =
        SetDisabled(SetDisabled(@, {"replayBtn", "exportBtn"},
                                ~hasEvents([shape |-> w.shape, events |-> w.events])
                                \/ w.game.isRunning),
                    {"importBtn"}, w.game.isRunning)]

\* ------------------------------------------------------------ state
VARIABLES
    ball, leftPaddle, rightPaddle,  \* the entities
    keys,                           \* Game.keys: the keys held down
    engine,                         \* currentTick, tickTimer, currentState, previousState
    game,                           \* isRunning, mode, scores, finalScores, animationId
    eventLogger,                    \* Game.eventLogger: the value of events and its shape
    replay,                         \* Game.replaySystem, with its replayLogger's events
    timers,                         \* the pending setTimeout callbacks
    disabled,                       \* the buttons that are disabled
    interval,                       \* time until updateButtons runs next
    serves,                         \* number of serves of the current game
    keyEvents,                      \* number of key events so far
    sessions,                       \* number of games and replays started so far
    pace,                           \* the display's frame time, where it is steady
    twin,                           \* an earlier run, kept to compare a later one with
    obs                             \* what the last step was observed to do

vars == << ball, leftPaddle, rightPaddle, keys, engine, game, eventLogger, replay, timers,
           disabled, interval, serves, keyEvents, sessions, pace, twin, obs >>

\* What a step is observed to do: the handler (op); the values of currentTick
\* handed to onPhysicsTick (ticks) and to updateTick (called); of an updateTick
\* that ran to its end (ran), the indices of the events it consumed (applied),
\* the paddle and ball at each Hit it consumed (hits), the cursor when its
\* event loop ended (cursor), the cursor and isActive when it returned
\* (cursorAfter, activeAfter) and its result (changed); the ball's passages of
\* a paddle face in replay (crossings); the payload of an import and what
\* importLog returned (payload, success), and whether the import ended with
\* one of the two alerts of failure (failed); the arguments a function is
\* called with on its own and what it returns (input, result).
NoPayload == [syntax |-> "none", shape |-> "none", events |-> << >>]
NoTwin == [phase |-> 0, draw |-> 0, keyLog |-> << >>, events |-> << >>]
NoObs == [op |-> "none", ticks |-> << >>, called |-> << >>, applied |-> << >>,
          hits |-> << >>, crossings |-> << >>, ran |-> FALSE, cursor |-> 0,
          cursorAfter |-> 0, activeAfter |-> FALSE, changed |-> FALSE,
          payload |-> NoPayload, success |-> FALSE, failed |-> FALSE,
          input |-> << >>, result |-> << >>]

\* the program state as one record, with nothing observed yet
World ==
    [ball |-> ball, leftPaddle |-> leftPaddle, rightPaddle |-> rightPaddle, keys |-> keys,
     engine |-> engine, game |-> game, events |-> eventLogger.events,
     shape |-> eventLogger.shape, replay |-> replay, timers |-> timers,
     disabled |-> disabled, interval |-> interval, serves |-> serves,
     ticks |-> << >>, called |-> << >>, applied |-> << >>, hits |-> << >>,
     crossings |-> << >>, ran |-> FALSE, cursor |-> 0, cursorAfter |-> 0,
     activeAfter |-> FALSE, changed |-> FALSE, payload |-> NoPayload, success |-> FALSE, failed |-> FALSE]

\* The same for a handler the user starts.  When neither frames nor timers are
\* going on, the time since updateButtons ran last is arbitrary; the model
\* takes the user to act right after it ran.
UserWorld ==
    IF ~game.animationId /\ timers = << >>
    THEN [World EXCEPT !.interval = Ms(BUTTON_INTERVAL)]
    ELSE World

\* the step to the state w, observed as op
Becomes(w, op) ==
    /\ ball' = w.ball
    /\ leftPaddle' = w.leftPaddle
    /\ rightPaddle' = w.rightPaddle
    /\ keys' = w.keys
    /\ engine' = w.engine
    /\ game' = w.game
    /\ eventLogger' = [shape |-> w.shape, events |-> w.events]
    /\ replay' = w.replay
    /\ timers' = w.timers
    /\ disabled' = w.disabled
    /\ interval' = w.interval
    /\ serves' = w.serves
    /\ obs' = [op |-> op, ticks |-> w.ticks, called |-> w.called, applied |-> w.applied,
               hits |-> w.hits, crossings |-> w.crossings, ran |-> w.ran,
               cursor |-> w.cursor, cursorAfter |-> w.cursorAfter,
               activeAfter |-> w.activeAfter, changed |-> w.changed,
               payload |-> w.payload, success |-> w.success, failed |-> w.failed,
               input |-> << >>, result |-> << >>]

\* the program as constructed
Constructed ==
    /\ ball = BallAtCenter
    /\ leftPaddle = PaddleAtCenter
    /\ rightPaddle = PaddleAtCenter
    /\ keys = {}
    /\ engine = resetStates(<< >>)
    /\ game = [isRunning |-> FALSE, mode |-> "play", leftScore |-> 0, rightScore |-> 0,
               lastHitPlayer |-> "none", finalScores |-> NoScores, animationId |-> FALSE]
    /\ eventLogger = [shape |-> "array", events |-> << >>]
    /\ replay = [events |-> << >>, currentEventIndex |-> 0, isActive |-> FALSE,
                 ballPosition |-> NoVec, ballVelocity |-> NoVec,
                 pendingMoves |-> [left |-> NoMove, right |-> NoMove],
                 lastProcessedScoreEvent |-> NoEvent, log |-> << >>]
    /\ timers = << >>
    /\ disabled = {"replayBtn", "exportBtn"}
    /\ interval = Ms(BUTTON_INTERVAL)
    /\ serves = 0
    /\ keyEvents = 0
    /\ sessions = 0
    /\ pace = TICK_DURATION
    /\ twin = NoTwin

Init == Constructed /\ obs = NoObs

\* a function is about to be called, on its own, with the arguments input
Given(input) == Constructed /\ obs = [NoObs EXCEPT !.op = "input", !.input = input]

\* the call op returns result
Returns(op, result) ==
    /\ obs.op = "input"
    /\ obs' = [obs EXCEPT !.op = op, !.result = result]
    /\ UNCHANGED << ball, leftPaddle, rightPaddle, keys, engine, game, eventLogger, replay,
                    timers, disabled, interval, serves, keyEvents, sessions, pace, twin >>

\* ------------------------------------------------------------ time
RemoveAt(seq, i) == SubSeq(seq, 1, i - 1) \o SubSeq(seq, i + 1, Len(seq))

\* dt of wall-clock time passes: timers come closer, and updateButtons runs
\* if its interval elapses
PassTime(w, dt) ==
    With([w EXCEPT !.timers = [i \in 1 .. Len(@) |->
                                 [@[i] EXCEPT !.remaining = Max(0, @ - dt)]]], LAMBDA w1 :
        IF w.interval - dt > 0
        THEN [w1 EXCEPT !.interval = @ - dt]
        ELSE [updateButtons(w1) EXCEPT
                 !.interval = Ms(BUTTON_INTERVAL) - ((dt - @) % Ms(BUTTON_INTERVAL))])

\* ------------------------------------------------------------ actions
\* A key goes down or up (the window's keydown and keyup listeners).  The
\* model lets a player touch the keys while a game is played, on ticks that
\* are multiples of grid, and budget times in all.
KeyTime(grid, budget) ==
    /\ keyEvents < budget
    /\ game.isRunning /\ game.mode = "play"
    /\ engine.currentTick % grid = 0 /\ engine.tickTimer = 0

KeyDown(allowed, grid, budget) ==
    /\ KeyTime(grid, budget)
    /\ \E k \in allowed \ keys :
          /\ keyEvents' = keyEvents + 1
          /\ Becomes([World EXCEPT !.keys = @ \cup {k}], "keydown")
    /\ UNCHANGED << sessions, pace, twin >>

KeyUp(allowed, grid, budget) ==
    /\ KeyTime(grid, budget)
    /\ \E k \in allowed \cap keys :
          /\ keyEvents' = keyEvents + 1
          /\ Becomes([World EXCEPT !.keys = @ \ {k}], "keyup")
    /\ UNCHANGED << sessions, pace, twin >>

\* the Start button; budget bounds the games and replays the model starts
Start(draws, paces, budget) ==
    /\ "startBtn" \notin disabled
    /\ sessions < budget
    /\ sessions' = sessions + 1
    /\ \E draw \in draws : \E w \in {start(UserWorld, draw)} : Becomes(w, "start")
    /\ pace' \in paces
    /\ UNCHANGED << keyEvents, twin >>

\* the Reset button
Reset ==
    /\ \E w \in {reset(UserWorld, TRUE)} : Becomes(w, "reset")
    /\ UNCHANGED << keyEvents, sessions, pace, twin >>

\* the Replay button
StartReplay(paces, budget) ==
    /\ "replayBtn" \notin disabled
    /\ sessions < budget
    /\ sessions' = sessions + 1
    /\ \E w \in {startReplayGame(UserWorld)} : Becomes(w, "startReplay")
    /\ pace' \in paces
    /\ UNCHANGED << keyEvents, twin >>

\* the Import button and the file chosen: a payload, or the log exported last;
\* budget bounds the imports, games and replays the model starts
Import(payloads, budget) ==
    /\ "importBtn" \notin disabled
    /\ sessions < budget
    /\ sessions' = sessions + 1
    /\ \E payload \in payloads \cup {exportLog(eventLogger)} :
       \E w \in {handleFileImport(UserWorld, payload)} : Becomes(w, "import")
    /\ UNCHANGED << keyEvents, pace, twin >>

\* An animation frame dt after the last one.  While a game is played no frame
\* is taken beyond maxTick.  The serve angle is drawn, from draws, only if the
\* frame serves.
Frame(frameTimes, draws, maxTick) ==
    /\ game.animationId
    /\ \A i \in 1 .. Len(timers) : timers[i].remaining > 0
    /\ game.isRunning /\ game.mode = "play" => engine.currentTick < maxTick
    /\ \E dt \in frameTimes :
       \E w0 \in {PassTime(World, dt)} :
       \E w1 \in {gameLoop(w0, Min(dt, Ms(FRAME_CAP)), CHOOSE d \in draws : TRUE)} :
          IF w1.serves = serves
          THEN Becomes(w1, "frame")
          ELSE \E draw \in draws :
               \E w2 \in {gameLoop(w0, Min(dt, Ms(FRAME_CAP)), draw)} :
                  Becomes(w2, "frame")
    /\ UNCHANGED << keyEvents, sessions, pace, twin >>

\* the timer that is due first
FirstTimer ==
    CHOOSE i \in 1 .. Len(timers) :
        \A j \in 1 .. Len(timers) :
            timers[i].remaining < timers[j].remaining
            \/ (timers[i].remaining = timers[j].remaining /\ i <= j)

\* a deferred reset runs: the one due first, as soon as it is due
TimerFire ==
    /\ timers # << >>
    /\ \E i \in {FirstTimer} :
          /\ timers[i].remaining = 0 \/ ~game.animationId
          /\ \E w1 \in {PassTime(World, timers[i].remaining)} :
             \E w2 \in {reset([w1 EXCEPT !.timers = RemoveAt(@, i)], FALSE)} :
                IF timers[i].kind = "endGame"
                THEN Becomes([w2 EXCEPT !.disabled =
                                 SetDisabled(@, {"replayBtn", "exportBtn"}, FALSE)],
                             "endGameTimer")
                ELSE Becomes(w2, "endReplayTimer")
    /\ UNCHANGED << keyEvents, sessions, pace, twin >>

\* updateButtons runs while nothing else is going on
UpdateButtons ==
    /\ ~game.animationId
    /\ timers = << >>
    /\ updateButtons(World).disabled # disabled
    /\ \E w \in {[updateButtons(World) EXCEPT !.interval = Ms(BUTTON_INTERVAL)]} :
          Becomes(w, "updateButtons")
    /\ UNCHANGED << keyEvents, sessions, pace, twin >>

\* ------------------------------------------------------------ live play
\* Frames from a fraction of a tick to beyond the cap, in any mix; a first
\* serve that is returned or one that is missed; the left player's keys.
PlayFrameTimes == {1, 2, 3, 5, 14}
PlayFirstDraws == {0, 9000}
PlayDraws == {9000}
PlayKeys == {"s"}
PlayKeyGrid == 10
PlayMaxKeyEvents == 2
PlayMaxTick == 30
PlayMaxSessions == 2

NextPlay ==
    \/ Start(PlayFirstDraws, {TICK_DURATION}, PlayMaxSessions)
    \/ Frame(PlayFrameTimes, PlayDraws, PlayMaxTick)
    \/ KeyDown(PlayKeys, PlayKeyGrid, PlayMaxKeyEvents)
    \/ KeyUp(PlayKeys, PlayKeyGrid, PlayMaxKeyEvents)
    \/ Reset

SpecPlay == Init /\ [][NextPlay]_vars

\* ------------------------------------------------------------ game and replay
\* Whole games and the replay of their logs, at a steady frame time: games at
\* six ticks a frame, replays at one tick or six ticks a frame.  The first
\* serve is one the idle right paddle returns or one it misses, later serves
\* are missed; the left player may press its down key once.
GameFirstDraws == {2000, 9000}
GameDraws == {9000}
GamePaces == {6 * TICK_DURATION}
ReplayPaces == {TICK_DURATION, 6 * TICK_DURATION}
GameKeys == {"s"}
GameKeyGrid == 60
GameMaxKeyEvents == 1
GameMaxTick == 1500
GameMaxSessions == 2

NextGame ==
    \/ Start(GameFirstDraws, GamePaces, GameMaxSessions)
    \/ Frame({pace}, GameDraws, GameMaxTick)
    \/ KeyDown(GameKeys, GameKeyGrid, GameMaxKeyEvents)
    \/ StartReplay(ReplayPaces, GameMaxSessions)
    \/ TimerFire

SpecGame == Init /\ [][NextGame]_vars

\* ------------------------------------------------------------ a dodge in replay
\* Games in which every serve passes the idle paddles, and the right player
\* presses its down key once; the replay of their logs.
DodgeDraws == {9000}
DodgeKeys == {"ArrowDown"}
DodgeKeyGrid == 6
DodgeMaxKeyEvents == 1
DodgeMaxTick == 1500
DodgeMaxSessions == 2

NextDodge ==
    \/ Start(DodgeDraws, GamePaces, DodgeMaxSessions)
    \/ Frame({pace}, DodgeDraws, DodgeMaxTick)
    \/ KeyDown(DodgeKeys, DodgeKeyGrid, DodgeMaxKeyEvents)
    \/ StartReplay(GamePaces, DodgeMaxSessions)
    \/ TimerFire

SpecDodge == Init /\ [][NextDodge]_vars

\* ------------------------------------------------------------ two runs of one game
\* A game is played twice: once at six ticks a frame and then, from the same
\* first serve angle and with the keys changing on the same ticks, at one tick
\* a frame.  All later serves have the same angle.  twin keeps the first run:
\* its first serve angle, the keys after each change with the tick of the
\* change, and its log.
PairFirstDraws == {2000, 9000}
PairDraws == {9000}
PairKeys == {"s"}
PairKeyGrid == 60
PairMaxKeyEvents == 1
PairMaxTick == 1500

\* the first run starts
PairStart ==
    /\ twin.phase = 0
    /\ "startBtn" \notin disabled
    /\ \E draw \in PairFirstDraws :
          /\ \E w \in {start(UserWorld, draw)} : Becomes(w, "start")
          /\ twin' = [twin EXCEPT !.phase = 1, !.draw = draw]
    /\ pace' = 6 * TICK_DURATION
    /\ UNCHANGED << keyEvents, sessions >>

\* a key goes down in the first run
PairKeyDown ==
    /\ twin.phase = 1
    /\ KeyTime(PairKeyGrid, PairMaxKeyEvents)
    /\ \E k \in PairKeys \ keys :
          /\ keyEvents' = keyEvents + 1
          /\ Becomes([World EXCEPT !.keys = @ \cup {k}], "keydown")
          /\ twin' = [twin EXCEPT !.keyLog =
                         Append(@, [tick |-> engine.currentTick, keys |-> keys \cup {k}])]
    /\ UNCHANGED << sessions, pace >>

\* the first run is over and its deferred reset has run: with all keys
\* released, the second run starts
PairRestart ==
    /\ twin.phase = 1
    /\ ~game.isRunning /\ ~game.animationId /\ timers = << >>
    /\ "startBtn" \notin disabled
    /\ \E w \in {start([UserWorld EXCEPT !.keys = {}], twin.draw)} : Becomes(w, "start")
    /\ twin' = [twin EXCEPT !.phase = 2, !.events = eventLogger.events]
    /\ pace' = TICK_DURATION
    /\ UNCHANGED << keyEvents, sessions >>

\* the keys the first run had from the current tick on, where they changed
KeysDue ==
    IF twin.phase = 2 /\ game.isRunning /\ engine.tickTimer = 0
    THEN {twin.keyLog[i].keys : i \in {j \in 1 .. Len(twin.keyLog) :
                                          /\ twin.keyLog[j].tick = engine.currentTick
                                          /\ twin.keyLog[j].keys # keys}}
    ELSE {}

\* the keys change in the second run on the tick they changed in the first
PairKey ==
    /\ \E k \in KeysDue : Becomes([World EXCEPT !.keys = k], "keydown")
    /\ UNCHANGED << keyEvents, sessions, pace, twin >>

\* a frame of either run, the keys being those of the tick
PairFrame ==
    /\ KeysDue = {}
    /\ Frame({pace}, PairDraws, PairMaxTick)

NextPair ==
    \/ PairStart
    \/ PairFrame
    \/ PairKeyDown
    \/ TimerFire
    \/ PairRestart
    \/ PairKey

SpecPair == Init /\ [][NextPair]_vars

\* ------------------------------------------------------------ export and import
\* Games as above, and the import of the log as exported.
RoundMaxSessions == 3

NextRound ==
    \/ Start(GameFirstDraws, GamePaces, RoundMaxSessions)
    \/ Frame({pace}, GameDraws, GameMaxTick)
    \/ KeyDown(GameKeys, GameKeyGrid, GameMaxKeyEvents)
    \/ TimerFire
    \/ Import({}, RoundMaxSessions)

SpecRound == Init /\ [][NextRound]_vars

\* ------------------------------------------------------------ import and replay
\* Files the user imports: text that is no JSON, the JSON text of a number, of
\* the empty array, and of two short logs; and the replay of what was imported,
\* at half a tick, one tick or six ticks a frame.
ShortLog ==
    << ServeEvent([x |-> getCanvasCenter.x, y |-> getCanvasCenter.y, vx |-> 296, vy |-> 47],
                  "left", PaddleCenter(PaddleAtCenter), PaddleCenter(PaddleAtCenter), 0),
       HitEvent([x |-> getPaddleFaceXRight - Radius, y |-> 13000, vx |-> -310, vy |-> 50],
                "right", PaddleCenter(PaddleAtCenter), PaddleCenter(PaddleAtCenter), 3),
       ScoreEvent([x |-> -Radius - 100, y |-> 15000, vx |-> -310, vy |-> 50], "right", 8) >>

TwoPointLog ==
    << ServeEvent([x |-> getCanvasCenter.x, y |-> getCanvasCenter.y, vx |-> 296, vy |-> 47],
                  "left", PaddleCenter(PaddleAtCenter), PaddleCenter(PaddleAtCenter), 0),
       ScoreEvent([x |-> Width + Radius + 100, y |-> 15900, vx |-> 296, vy |-> 47], "left", 2),
       ServeEvent([x |-> getCanvasCenter.x, y |-> getCanvasCenter.y, vx |-> -296, vy |-> -47],
                  "right", PaddleCenter(PaddleAtCenter), PaddleCenter(PaddleAtCenter), 2),
       ScoreEvent([x |-> -Radius - 100, y |-> 8000, vx |-> -296, vy |-> -47], "right", 5) >>

ImportPayloads ==
    {Unparsable, JsonNumber, JsonArray(<< >>), JsonArray(ShortLog), JsonArray(TwoPointLog)}
ImportPaces == {1, TICK_DURATION, 6 * TICK_DURATION}
ImportMaxSessions == 3

NextImport ==
    \/ Import(ImportPayloads, ImportMaxSessions)
    \/ StartReplay(ImportPaces, ImportMaxSessions)
    \/ Frame({pace}, GameDraws, GameMaxTick)
    \/ TimerFire
    \/ UpdateButtons

SpecImport == Init /\ [][NextImport]_vars

\* ------------------------------------------------------------ replay to the end
\* The two short logs imported and replayed, at half a tick, one tick or six
\* ticks a frame, with the frames the browser keeps
\* delivering (gameLoop asks for the next animation frame at its end) and the
\* timeouts it runs when due.
FairPayloads == {JsonArray(ShortLog), JsonArray(TwoPointLog)}
FairMaxSessions == 2

NextReplay ==
    \/ Import(FairPayloads, FairMaxSessions)
    \/ StartReplay(ImportPaces, FairMaxSessions)
    \/ Frame({pace}, GameDraws, GameMaxTick)
    \/ TimerFire
    \/ UpdateButtons

SpecReplayFair ==
    /\ Init /\ [][NextReplay]_vars
    /\ WF_vars(Frame({pace}, GameDraws, GameMaxTick))
    /\ WF_vars(TimerFire)

\* ------------------------------------------------------------ compareWith
\* compareWith on two logs of up to CompareMaxLen events: a Serve, a Score, and
\* Hits whose positions differ by 0, by just under, by exactly and by just over
\* the tolerance on one axis or the other.
CompareMaxLen == 2

CompareEvents ==
    {ServeEvent([x |-> Px(400), y |-> Px(200), vx |-> 296, vy |-> 47], "left",
                PaddleCenter(PaddleAtCenter), PaddleCenter(PaddleAtCenter), 0),
     ScoreEvent([x |-> Px(100), y |-> Px(100), vx |-> 296, vy |-> 47], "left", 9)}
    \cup {HitEvent([x |-> Px(100) + d[1], y |-> Px(100) + d[2], vx |-> 296, vy |-> 47], "left",
                   PaddleCenter(PaddleAtCenter), PaddleCenter(PaddleAtCenter), 5) :
             d \in {<< 0, 0 >>, << Px(POSITION_TOLERANCE) - 1, 0 >>,
                    << Px(POSITION_TOLERANCE), 0 >>, << 0, Px(POSITION_TOLERANCE) + 1 >>}}

CompareLogs == UNION {[1 .. n -> CompareEvents] : n \in 0 .. CompareMaxLen}

InitCompare == \E a \in CompareLogs : \E b \in CompareLogs : Given(<< a, b >>)

Compare == Returns("compareWith", compareWith(obs.input[1], obs.input[2]))

SpecCompare == InitCompare /\ [][Compare]_vars

\* ------------------------------------------------------------ predictBallY
\* predictBallY for the two paddle faces and a ball on a face, at the centre
\* or in between, at a wall or in mid-court, still, slow or fast in x and y:
\* a slow ball folds at the walls many times before it arrives.
PredictXs == {getPaddleFaceXLeft, Px(100), getCanvasCenter.x, getPaddleFaceXRight}
PredictYs == {Radius, Px(150), getCanvasCenter.y, Height - Radius}
PredictSpeeds == {0, 7, 47, BALL_INITIAL_SPEED}
PredictVelocities == PredictSpeeds \cup {0 - v : v \in PredictSpeeds}

InitPredict ==
    \E side \in Sides : \E x \in PredictXs : \E y \in PredictYs :
    \E vx \in PredictVelocities : \E vy \in PredictVelocities :
        Given(<< PaddleFaceX(side), [x |-> x, y |-> y, vx |-> vx, vy |-> vy] >>)

Predict == Returns("predictBallY", predictBallY(obs.input[1], obs.input[2]))

SpecPredict == InitPredict /\ [][Predict]_vars

\* ------------------------------------------------------------ calculateMissPosition
\* calculateMissPosition for either side, a ball at mid-court or on the face,
\* on every MissStep-th pixel row between the walls, level, slanting or steep,
\* toward the side or away from it, and a paddle at the top, the centre or
\* the bottom.
MissStep == 8
MissXs == {getPaddleFaceXLeft, getCanvasCenter.x, getPaddleFaceXRight}
MissYs == {Radius + k * Px(MissStep) : k \in 0 .. (Height - 2 * Radius) \div Px(MissStep)}
MissPaddleYs == {0, getPaddleCenterY, Height - PaddleH}

InitMiss ==
    \E side \in Sides : \E x \in MissXs : \E y \in MissYs :
    \E vx \in {0 - BALL_INITIAL_SPEED, BALL_INITIAL_SPEED} :
    \E vy \in {0 - BALL_INITIAL_SPEED, 0, 47} :
    \E paddleY \in MissPaddleYs :
        Given(<< [x |-> x, y |-> y, vx |-> vx, vy |-> vy], side, paddleY >>)

Miss ==
    Returns("calculateMissPosition",
            calculateMissPosition(obs.input[1], obs.input[2], obs.input[3]))

SpecMiss == InitMiss /\ [][Miss]_vars

\* ------------------------------------------------------------ movePaddleToTarget
\* movePaddleToTarget for a paddle at the ends of its range, a step or so from
\* them, or at the centre, and a target that is one of these positions, a
\* little off one, or the paddle top that calculateOptimalPaddlePosition
\* computes for a Hit: among the Hits those of a paddle that moves away from
\* the wall next to it, whose spin puts the computed top beyond the wall.
MoveNear == 3
MoveYs ==
    {0, MoveNear, PaddleStep - MoveNear, PaddleStep, PaddleStep + MoveNear, getPaddleCenterY,
     Height - PaddleH - PaddleStep, Height - PaddleH - MoveNear, Height - PaddleH}

\* contacts of live play: [p, side, b], the ball being on the face
MoveContacts ==
    {[p |-> [y |-> Px(10), velocity |-> PaddleStep], side |-> "left",
      b |-> [x |-> getPaddleFaceXLeft, y |-> Px(60), vx |-> 0 - BALL_INITIAL_SPEED, vy |-> 0]],
     [p |-> [y |-> Height - PaddleH - Px(10), velocity |-> 0 - PaddleStep], side |-> "right",
      b |-> [x |-> getPaddleFaceXRight, y |-> Height - Px(60), vx |-> BALL_INITIAL_SPEED,
             vy |-> 0]],
     [p |-> PaddleAtCenter, side |-> "left",
      b |-> [x |-> getPaddleFaceXLeft, y |-> Px(220), vx |-> 0 - BALL_INITIAL_SPEED, vy |-> 47]]}

\* the Hit that live play logs for a contact
ContactHit(c) ==
    HitEvent(checkCollision(c.p, c.side, c.b).ball, c.side, PaddleCenter(c.p),
             PaddleCenter(c.p), 1)

MoveTargets == MoveYs \cup {calculateOptimalPaddlePosition(ContactHit(c)) : c \in MoveContacts}

InitMove ==
    \E y \in MoveYs : \E targetY \in MoveTargets :
        Given(<< [y |-> y, velocity |-> 0], targetY >>)

MoveToTarget == Returns("movePaddleToTarget", movePaddleToTarget(obs.input[1], obs.input[2]))

SpecMove == InitMove /\ [][MoveToTarget]_vars

\* ------------------------------------------------------------ keys in replay
\* Games as in SpecGame and the replay of their logs, during which the keys of
\* both players are pressed and released.
ReplayKeys == {"s", "ArrowUp"}
ReplayKeyGrid == 60
ReplayMaxKeyEvents == 2
ReplayMaxSessions == 2

ReplayKeyTime ==
    /\ keyEvents < ReplayMaxKeyEvents
    /\ game.isRunning /\ game.mode = "replay"
    /\ engine.currentTick % ReplayKeyGrid = 0 /\ engine.tickTimer = 0

\* the keydown listener, during a replay
ReplayKeyDown ==
    /\ ReplayKeyTime
    /\ \E k \in ReplayKeys \ keys :
          /\ keyEvents' = keyEvents + 1
          /\ Becomes([World EXCEPT !.keys = @ \cup {k}], "keydown")
    /\ UNCHANGED << sessions, pace, twin >>

\* the keyup listener, during a replay
ReplayKeyUp ==
    /\ ReplayKeyTime
    /\ \E k \in ReplayKeys \cap keys :
          /\ keyEvents' = keyEvents + 1
          /\ Becomes([World EXCEPT !.keys = @ \ {k}], "keyup")
    /\ UNCHANGED << sessions, pace, twin >>

NextKeys ==
    \/ Start(GameFirstDraws, GamePaces, ReplayMaxSessions)
    \/ Frame({pace}, GameDraws, GameMaxTick)
    \/ KeyDown(GameKeys, GameKeyGrid, GameMaxKeyEvents)
    \/ StartReplay(ReplayPaces, ReplayMaxSessions)
    \/ TimerFire
    \/ ReplayKeyDown
    \/ ReplayKeyUp

SpecKeys == Init /\ [][NextKeys]_vars

\* all of a world but the key-state map
Keyless(w) ==
    [ball |-> w.ball, leftPaddle |-> w.leftPaddle, rightPaddle |-> w.rightPaddle,
     engine |-> w.engine, game |-> w.game, events |-> w.events, shape |-> w.shape,
     replay |-> w.replay, timers |-> w.timers, disabled |-> w.disabled,
     interval |-> w.interval, serves |-> w.serves]

\* the frame of this pace taken from the present state with the keys pressed
\* being pressed instead
FrameWithKeys(pressed) ==
    gameLoop(PassTime([World EXCEPT !.keys = pressed], pace), Min(pace, Ms(FRAME_CAP)),
             CHOOSE d \in GameDraws : TRUE)

\* ------------------------------------------------------------ replayed points
\* Replays, at one tick a frame, of imported logs: one whose two points are
\* three ticks apart, and one whose two Score events carry the same tick.
SameTickLog ==
    << ServeEvent([x |-> getCanvasCenter.x, y |-> getCanvasCenter.y, vx |-> 296, vy |-> 47],
                  "left", PaddleCenter(PaddleAtCenter), PaddleCenter(PaddleAtCenter), 0),
       ScoreEvent([x |-> Width + Radius + 100, y |-> 15900, vx |-> 296, vy |-> 47], "left", 2),
       ServeEvent([x |-> getCanvasCenter.x, y |-> getCanvasCenter.y, vx |-> -296, vy |-> -47],
                  "right", PaddleCenter(PaddleAtCenter), PaddleCenter(PaddleAtCenter), 2),
       ScoreEvent([x |-> -Radius - 100, y |-> 8000, vx |-> -296, vy |-> -47], "right", 2) >>

ScoresPayloads == {JsonArray(TwoPointLog), JsonArray(SameTickLog)}
ScoresMaxSessions == 3

NextScores ==
    \/ Import(ScoresPayloads, ScoresMaxSessions)
    \/ StartReplay({TICK_DURATION}, ScoresMaxSessions)
    \/ Frame({pace}, GameDraws, GameMaxTick)
    \/ TimerFire
    \/ UpdateButtons

SpecScores == Init /\ [][NextScores]_vars

\* the Score events for player in a log
ScoresOf(log, player) ==
    Cardinality({i \in 1 .. Len(log) : log[i].type = "score" /\ log[i].player = player})

\* ------------------------------------------------------------ a Score consumed
\* calculateEventMovements as the event loop of updateTick calls it for the
\* Score that ends the first rally of a log: the cursor is at the Score, the
\* ball velocity is the Score's, and each side has no pending move, an executed
\* miss move, a hit move or a waypoint for a later rally.  The ball leaves the
\* table on the side that concedes.
MovementMoves ==
    {NoMove,
     [Move(Px(40), 1, "miss") EXCEPT !.executed = TRUE],
     Move(Px(200), 3, "hit"),
     Move(Px(100), 3, "position_for_next_hit")}

MovementScores ==
    {ScoreEvent([x |-> Width + Radius + 100, y |-> 15900, vx |-> 296, vy |-> vy], "left", 83)
        : vy \in {47, -47}}
    \cup {ScoreEvent([x |-> -Radius - 100, y |-> 8000, vx |-> -296, vy |-> vy], "right", 83)
             : vy \in {47, -47}}

\* the rally that follows the Score: a serve, a Hit by the right paddle, the
\* point
LaterRally ==
    << ServeEvent([x |-> getCanvasCenter.x, y |-> getCanvasCenter.y, vx |-> 296, vy |-> 47],
                  "left", PaddleCenter(PaddleAtCenter), PaddleCenter(PaddleAtCenter), 83),
       HitEvent([x |-> getPaddleFaceXRight - Radius, y |-> 13000, vx |-> -310, vy |-> 50],
                "right", PaddleCenter(PaddleAtCenter), PaddleCenter(PaddleAtCenter), 155),
       ScoreEvent([x |-> -Radius - 100, y |-> 15000, vx |-> -310, vy |-> 50], "right", 240) >>

\* the replay record when the event loop hands event, the second of the log,
\* to calculateEventMovements
AtScore(event, left, right) ==
    [events |-> << ShortLog[1], event >> \o LaterRally, currentEventIndex |-> 1,
     isActive |-> TRUE,
     ballPosition |-> event.position, ballVelocity |-> event.velocity,
     pendingMoves |-> [left |-> left, right |-> right],
     lastProcessedScoreEvent |-> NoEvent, log |-> << LoggedCopy(ShortLog[1]) >>]

InitMovements ==
    \E event \in MovementScores : \E left, right \in MovementMoves :
        Given(<< AtScore(event, left, right), event >>)

Movements ==
    Returns("calculateEventMovements", calculateEventMovements(obs.input[1], obs.input[2]))

SpecMovements == InitMovements /\ [][Movements]_vars

\* ------------------------------------------------------------ replay ticks
\* this step is a frame of a replay
ReplayFrame == game.isRunning /\ game.mode = "replay" /\ obs'.op = "frame"

\* the program state of such a frame when it calls updateTick: the physics
\* ticks of the frame have run
TickInput ==
    processPhysicsTicks(PassTime(World, pace), Min(pace, Ms(FRAME_CAP)), keys, "replay",
                        CHOOSE d \in GameDraws : TRUE)

\* this step is a frame of a replay whose updateTick goes past its guard
ReplayTick == ReplayFrame /\ replay.isActive /\ replay.events # << >>

\* the replay record after the first step of that updateTick
Avoided == setupScoreAvoidance(TickInput)

\* the events that are due at that updateTick: the indices from the cursor up
\* to the first event of a later tick
DueEvents ==
    LET n == Len(replay.events)
        late == {i \in replay.currentEventIndex .. n - 1 :
                    replay.events[i + 1].tick > TickInput.engine.currentTick}
        stop == IF late = {} THEN n ELSE CHOOSE i \in late : \A j \in late : i <= j
    IN [k \in 1 .. stop - replay.currentEventIndex |-> replay.currentEventIndex + k - 1]

\* ------------------------------------------------------------ contacts
\* Live play at one tick a frame, up to the second hit of the rally: the idle
\* right paddle returns the first serve, and the left player, who may press
\* and release its down key, returns the ball or not.
ContactDraws == {2000}
ContactKeys == {"s"}
ContactKeyGrid == 40
ContactMaxKeyEvents == 2
ContactMaxTick == 240
ContactMaxSessions == 1

NextContact ==
    \/ Start(ContactDraws, {TICK_DURATION}, ContactMaxSessions)
    \/ Frame({pace}, ContactDraws, ContactMaxTick)
    \/ KeyDown(ContactKeys, ContactKeyGrid, ContactMaxKeyEvents)
    \/ KeyUp(ContactKeys, ContactKeyGrid, ContactMaxKeyEvents)

SpecContact == Init /\ [][NextContact]_vars

\* this step is a tick of live play that logs a Hit by side
LogsHit(side) ==
    /\ game.mode = "play"
    /\ engine'.currentTick = engine.currentTick + 1
    /\ Len(eventLogger'.events) = Len(eventLogger.events) + 1
    /\ eventLogger'.events[Len(eventLogger'.events)].type = "hit"
    /\ eventLogger'.events[Len(eventLogger'.events)].player = side

\* the ball as checkCollision of that tick leaves it: on the face of the
\* paddle, with the velocity of the bounce
Contact(side) ==
    checkCollision(PaddleUpdate(IF side = "left" THEN leftPaddle ELSE rightPaddle, side, keys),
                   side, ball).ball

\* ------------------------------------------------------------ rallies
\* A rally as a sequence of checkCollision calls: the served ball meets the
\* right paddle, and each returned ball flies to the other paddle, keeping its
\* velocity (Ball.update changes only the sign of vy, at a wall), and meets it
\* at one of RallyYs. The paddles stand still at the centre, so that no spin
\* is added to the bounce.
RallyMaxHits == 22
RallyYs == {Px(200), Px(216)}

\* the speed of the old checkCollision's cap (Paddle.js), for which
\* GAME_CONSTANTS has no value
BALL_MAX_SPEED == 800

\* speeds are whole px/s here: a speed recomputed from a velocity is off by
\* this much at most
SpeedRounding == 1

BallSpeed(b) == Sqrt(b.vx * b.vx + b.vy * b.vy)

InitRally ==
    \E y \in RallyYs :
        Given(<< PaddleAtCenter, "right",
                 [x |-> getPaddleFaceXRight, y |-> y, vx |-> BALL_INITIAL_SPEED, vy |-> 0], 1 >>)

RallyHit ==
    Returns("checkCollision", checkCollision(obs.input[1], obs.input[2], obs.input[3]))

RallyFlight ==
    /\ obs.op = "checkCollision"
    /\ obs.result.hit
    /\ obs.input[4] < RallyMaxHits
    /\ \E y \in RallyYs :
         obs' = [obs EXCEPT
                    !.op = "input",
                    !.result = << >>,
                    !.input = << PaddleAtCenter, Other(obs.input[2]),
                                 [x |-> PaddleFaceX(Other(obs.input[2])), y |-> y,
                                  vx |-> obs.result.ball.vx, vy |-> obs.result.ball.vy],
                                 obs.input[4] + 1 >>]
    /\ UNCHANGED << ball, leftPaddle, rightPaddle, keys, engine, game, eventLogger, replay,
                    timers, disabled, interval, serves, keyEvents, sessions, pace, twin >>

NextRally == RallyHit \/ RallyFlight

SpecRally == InitRally /\ [][NextRally]_vars

\* ------------------------------------------------------------ claims
\* C4: every call of Engine.processPhysicsTicks raises currentTick by exactly 1
\* per physics step it executes, never lowers it, and returns with
\* 0 <= tickTimer < TICK_DURATION.
C4_TickInvariant ==
    [][obs'.op = "frame" /\ game.isRunning =>
          /\ \A i \in 1 .. Len(obs'.ticks) : obs'.ticks[i] = engine.currentTick + i
          /\ engine'.currentTick = engine.currentTick + Len(obs'.ticks)
          /\ 0 <= engine'.tickTimer
          /\ engine'.tickTimer < TICK_DURATION]_vars

\* a frame that ran several ticks and left a fraction of a tick
C4_Witness == obs.op = "frame" /\ Len(obs.ticks) >= 2 /\ engine.tickTimer = 1

\* C9: every log live play produces is in non-decreasing tick order, begins
\* with exactly one Serve, has a Score right before every later Serve, and has
\* only Hits between a Serve and the next Score.
C9_LogShape ==
    LET ev == eventLogger.events
        n == Len(ev)
    IN /\ \A i \in 1 .. n - 1 : ev[i].tick <= ev[i + 1].tick
       /\ n >= 1 => ev[1].type = "serve"
       /\ n >= 2 => ev[2].type # "serve"
       /\ \A i \in 2 .. n : ev[i].type = "serve" => ev[i - 1].type = "score"
       /\ \A i \in 1 .. n : \A k \in i + 1 .. n :
             /\ ev[i].type = "serve"
             /\ ev[k].type = "score"
             /\ \A j \in i + 1 .. k - 1 : ev[j].type # "score"
             => \A j \in i + 1 .. k - 1 : ev[j].type = "hit"

\* a log of live play with a rally of a hit, the point, and the next serve
C9_Witness ==
    \E i \in 1 .. Len(eventLogger.events) - 3 :
        /\ eventLogger.events[i].type = "serve"
        /\ eventLogger.events[i + 1].type = "hit"
        /\ eventLogger.events[i + 2].type = "score"
        /\ eventLogger.events[i + 3].type = "serve"
        /\ eventLogger.events[i + 3].tick > 0

\* C5: two live-play runs with the same serve angles and the same keys on
\* every tick append identical logs.
C5_Deterministic ==
    twin.phase = 2 /\ ~game.isRunning /\ timers = << >> => eventLogger.events = twin.events

\* the two runs agree on every event up to the one that ends the game
C5_Prefix ==
    twin.phase = 2 /\ ~game.isRunning /\ timers = << >> =>
        /\ Len(eventLogger.events) <= Len(twin.events)
        /\ eventLogger.events = SubSeq(twin.events, 1, Len(eventLogger.events))

\* C6: in replay every physics tick of a frame has its one call of updateTick,
\* with the tick's number, however many ticks the frame advances.
C6_OncePerTick == obs.op = "frame" /\ obs.called # << >> => obs.called = obs.ticks

\* the index of the first event with tick > t, or the length of the log
FirstAfter(events, t) ==
    IF \E i \in 1 .. Len(events) : events[i].tick > t
    THEN (CHOOSE i \in 1 .. Len(events) :
             events[i].tick > t /\ \A j \in 1 .. i - 1 : events[j].tick <= t) - 1
    ELSE Len(events)

Sorted(events) == \A i \in 1 .. Len(events) - 1 : events[i].tick <= events[i + 1].tick

\* what C7 says of the events an updateTick(t) consumes: they are the events
\* from the cursor on, in order, none with a tick after t
ConsumedInOrder ==
    /\ \A k \in 1 .. Len(obs'.applied) :
          /\ obs'.applied[k] = replay.currentEventIndex + k - 1
          /\ replay.events[obs'.applied[k] + 1].tick <= obs'.called[1]
    /\ obs'.cursor = replay.currentEventIndex + Len(obs'.applied)
    /\ \A i \in 1 .. Len(replay.events) :
          replay.events[i].tick <= obs'.called[1] => i <= obs'.cursor

\* C7 as stated: an updateTick(t) that runs on a log in tick order consumes the
\* events from the cursor on in order, none with a tick after t, all with a tick
\* up to t, and returns with the cursor at the first event with a tick after t,
\* or at the end of the log.
C7_Original ==
    [][obs'.op = "frame" /\ obs'.ran /\ Sorted(replay.events) =>
          /\ ConsumedInOrder
          /\ obs'.cursorAfter = FirstAfter(replay.events, obs'.called[1])]_vars

\* C7, amended: as stated, but an updateTick that consumes the last event
\* returns with the replay stopped and the cursor back at 0.
C7_CursorOrder ==
    [][obs'.op = "frame" /\ obs'.ran /\ Sorted(replay.events) =>
          /\ ConsumedInOrder
          /\ IF FirstAfter(replay.events, obs'.called[1]) = Len(replay.events)
             THEN obs'.cursorAfter = 0 /\ ~obs'.activeAfter
             ELSE /\ obs'.cursorAfter = FirstAfter(replay.events, obs'.called[1])
                  /\ obs'.activeAfter]_vars

\* an updateTick that consumed events and left some for later ticks, and one
\* that consumed the last event
C7_Witness ==
    /\ obs.op = "frame" /\ obs.ran
    /\ Len(obs.applied) >= 2
    /\ obs.cursorAfter = 0 /\ ~obs.activeAfter

\* C1: at the tick on which a replay consumes a Hit of a live log, the span of
\* the hitting side's paddle overlaps the ball's recorded contact span.
C1_HitIntercept ==
    \A i \in 1 .. Len(obs.hits) : SpansOverlap(obs.hits[i].ballY, obs.hits[i].paddleY)

\* C3: when the replay of the log of a complete game has ended, compareWith
\* reports the original log and the replay log identical.
C3_Identical ==
    \A i \in 1 .. Len(timers) : timers[i].kind = "endReplay" => timers[i].message.identical

\* C2: when the replayed ball passes the paddle face of the side that is to
\* concede the next Score of the log, that side's paddle span does not overlap
\* the ball's span.
C2_ScoreNotIntercepted ==
    \A i \in 1 .. Len(obs.crossings) :
        obs.crossings[i].next = "score" =>
            ~SpansOverlap(obs.crossings[i].ballY, obs.crossings[i].paddleY)

\* C8: the updateTick call in which the cursor reaches the end of the log
\* returns with isActive false, and an active replay eventually ends.
C8_ReplayEnds ==
    /\ [](obs.op = "frame" /\ obs.ran /\ obs.cursor = Len(replay.events) => ~obs.activeAfter)
    /\ (replay.isActive ~> ~replay.isActive)

\* an updateTick consumed the last event of a log of several events
C8_Witness ==
    /\ obs.op = "frame" /\ obs.ran
    /\ obs.applied # << >>
    /\ obs.cursor = Len(replay.events)
    /\ Len(replay.events) >= 3
    /\ ~replay.isActive

\* a payload that is a well-formed array of recognized event records
WellFormedPayload(payload) ==
    /\ payload.syntax = "json"
    /\ payload.shape = "array"
    /\ \A i \in 1 .. Len(payload.events) : payload.events[i].type \in {"serve", "hit", "score"}

\* C10: importLog fails, and loads nothing, for every payload that is not a
\* well-formed array of recognized event records.
C10_RejectsMalformed ==
    [][obs'.op = "import" /\ ~WellFormedPayload(obs'.payload) =>
          ~obs'.success /\ eventLogger' = eventLogger]_vars

\* the log and the game, engine, ball and paddle state are those of before
\* the step
StateKept ==
    /\ eventLogger' = eventLogger
    /\ game' = game
    /\ engine' = engine
    /\ ball' = ball
    /\ leftPaddle' = leftPaddle
    /\ rightPaddle' = rightPaddle

\* C11: an import that ends in failure leaves the log and the game, engine,
\* ball and paddle state as they were before it.
C11_FailedImportKeepsState == [][obs'.op = "import" /\ obs'.failed => StateKept]_vars

\* an import that importLog itself refuses leaves them as they were
C11_RefusedImportKeepsState == [][obs'.op = "import" /\ ~obs'.success => StateKept]_vars

\* importLog refused a payload when a log was in memory
C11_Witness == obs.op = "import" /\ ~obs.success /\ eventLogger.events # << >>

PairMatches(e1, e2) ==
    /\ e1.type = e2.type
    /\ e1.type # "serve" =>
          /\ e1.position.x - e2.position.x < Px(POSITION_TOLERANCE)
          /\ e2.position.x - e1.position.x < Px(POSITION_TOLERANCE)
          /\ e1.position.y - e2.position.y < Px(POSITION_TOLERANCE)
          /\ e2.position.y - e1.position.y < Px(POSITION_TOLERANCE)

\* C13: compareWith returns the two lengths, the number of indices at which
\* the pair of events matches, and identical = true iff the lengths are equal
\* and every pair matches.
C13_CompareWith ==
    obs.op = "compareWith" =>
        LET a == obs.input[1]
            b == obs.input[2]
            both == {i \in 1 .. Len(a) : i <= Len(b)}
        IN /\ obs.result.original = Len(a)
           /\ obs.result.replay = Len(b)
           /\ obs.result.matching = Cardinality({i \in both : PairMatches(a[i], b[i])})
           /\ obs.result.identical =
                 (Len(a) = Len(b) /\ \A i \in both : PairMatches(a[i], b[i]))

\* two logs of different lengths whose common pairs match, one of them of Hits
\* just within the tolerance
C13_Witness ==
    /\ obs.op = "compareWith"
    /\ Len(obs.input[1]) = 2 /\ Len(obs.input[2]) = 1
    /\ obs.input[1][1].type = "hit"
    /\ obs.input[1][1].position # obs.input[2][1].position
    /\ obs.result.matching = 1
    /\ ~obs.result.identical

\* y mirrored at the walls: the court between the walls is Height - 2 Radius
\* high for the ball's centre, and a straight path is folded back into it
Mirrored(y) ==
    LET court == Height - 2 * Radius
        u == (y - Radius) % (2 * court)
    IN Radius + (IF u <= court THEN u ELSE 2 * court - u)

\* the ball's y where its straight path meets targetX
Extrapolated(targetX, b) ==
    b.y + RoundDiv(b.vy * (targetX - b.x) * Sign(b.vx), Abs(b.vx))

\* C14: predictBallY returns null exactly when |vx| is below the epsilon or
\* the ball moves away from targetX; otherwise it returns the extrapolated y
\* mirrored at the walls, which is inside [radius, height - radius].
C14_PredictBallY ==
    obs.op = "predictBallY" =>
        LET targetX == obs.input[1]
            b == obs.input[2]
        IN IF b.vx = 0 \/ (targetX - b.x) * b.vx < 0
           THEN obs.result = NoPrediction
           ELSE /\ obs.result # NoPrediction
                /\ Radius <= obs.result /\ obs.result <= Height - Radius
                /\ obs.result = Mirrored(Extrapolated(targetX, b))

\* a prediction folded at both walls, more than once
C14_Witness ==
    /\ obs.op = "predictBallY"
    /\ obs.result # NoPrediction
    /\ Extrapolated(obs.input[1], obs.input[2]) > 2 * Height

\* C15: for a ball with zero vertical velocity that approaches targetX,
\* predictBallY returns the ball's y.
C15_LevelBall ==
    obs.op = "predictBallY"
    /\ obs.input[2].vy = 0 /\ obs.input[2].vx # 0
    /\ (obs.input[1] - obs.input[2].x) * obs.input[2].vx > 0
    => obs.result = obs.input[2].y

\* a level ball along a wall, approaching, was predicted
C15_Witness ==
    /\ obs.op = "predictBallY"
    /\ obs.input[2].vy = 0
    /\ (obs.input[1] - obs.input[2].x) * obs.input[2].vx > 0
    /\ obs.input[2].y = Radius
    /\ obs.result = Radius

\* the ball b moves toward the face of side, or is on it and moving
Approaching(b, side) == b.vx # 0 /\ (PaddleFaceX(side) - b.x) * b.vx >= 0

\* C16: for a ball approaching a side, the target of calculateMissPosition is
\* in [0, Height - PaddleH], a paddle at the target is clear of the ball's
\* predicted arrival span by the safety margin or more, and
\* wouldPaddleIntercept is false of it.
C16_MissClears ==
    obs.op = "calculateMissPosition" /\ Approaching(obs.input[1], obs.input[2]) =>
        LET arrival == predictBallY(PaddleFaceX(obs.input[2]), obs.input[1])
        IN /\ 0 <= obs.result /\ obs.result <= Height - PaddleH
           /\ \/ obs.result + PaddleH + getSafetyMargin <= arrival - Radius
              \/ arrival + Radius + getSafetyMargin <= obs.result
           /\ ~wouldPaddleIntercept(obs.input[1], obs.input[2], obs.result)

\* a miss position below a ball that arrives too close to the top wall for
\* the paddle to pass above it
C16_Witness ==
    /\ obs.op = "calculateMissPosition" /\ Approaching(obs.input[1], obs.input[2])
    /\ predictBallY(PaddleFaceX(obs.input[2]), obs.input[1]) < PaddleH + Radius
    /\ obs.input[1].vy # 0
    /\ obs.result > predictBallY(PaddleFaceX(obs.input[2]), obs.input[1])

\* the paddle moved from y toward targetY, by a step at most, not past it
MovedToward(y, targetY, newY) ==
    /\ (newY - y) * (targetY - y) >= 0
    /\ Abs(newY - y) <= PaddleStep
    /\ Abs(newY - y) <= Abs(targetY - y)

\* C17 as stated: movePaddleToTarget moves the paddle toward targetY by at
\* most PADDLE_SPEED * dt, never past targetY, and whenever it reports
\* reached = true the paddle's y equals targetY exactly.
C17_Original ==
    obs.op = "movePaddleToTarget" =>
        /\ MovedToward(obs.input[1].y, obs.input[2], obs.result.paddle.y)
        /\ obs.result.reached => obs.result.paddle.y = obs.input[2]

\* C17, amended: as stated, but with reached = true the paddle's y is the
\* target clamped to the paddle's range [0, Height - PaddleH]: the target
\* itself only if it lies in that range.
C17_MoveToTarget ==
    obs.op = "movePaddleToTarget" =>
        /\ MovedToward(obs.input[1].y, obs.input[2], obs.result.paddle.y)
        /\ obs.result.reached =>
              /\ obs.result.paddle.y = clampPaddleY(obs.input[2])
              /\ (obs.result.paddle.y = obs.input[2]) =
                    (0 <= obs.input[2] /\ obs.input[2] <= Height - PaddleH)

\* the paddle reached a target beyond the top wall, and stands at the wall
C17_Witness ==
    /\ obs.op = "movePaddleToTarget"
    /\ obs.result.reached
    /\ obs.input[2] < 0
    /\ obs.input[1].y > 0
    /\ obs.result.paddle.y = 0

BounceSpeedGrows ==
    obs.op = "checkCollision" /\ obs.result.hit =>
        Abs(BallSpeed(obs.result.ball)
            - RoundDiv(BallSpeed(obs.input[3]) * BALL_SPEED_INCREASE_FACTOR, 100)) <= SpeedRounding

\* C19: every Hit event logged in live play records as position the ball's
\* location at the instant of contact (one radius from the hitting paddle's
\* face, before any further ball movement) and as velocity the ball's velocity
\* after the bounce.
C19_HitAtContact ==
    [][\A side \in {"left", "right"} :
          LogsHit(side) =>
             LET e == eventLogger'.events[Len(eventLogger'.events)]
             IN /\ e.position = Vec(Contact(side).x, Contact(side).y)
                /\ Abs(e.position.x - PaddleFaceX(side)) = Radius
                /\ e.velocity = Vec(Contact(side).vx, Contact(side).vy)]_vars

\* what the log records: the ball after the Ball.update of the tick of the
\* contact, a tick's flight away from the face
HitAfterUpdate ==
    [][\A side \in {"left", "right"} :
          LogsHit(side) =>
             LET e == eventLogger'.events[Len(eventLogger'.events)]
                 b == BallUpdate(Contact(side))
             IN /\ e.position = Vec(b.x, b.y)
                /\ e.velocity = Vec(b.vx, b.vy)
                /\ Abs(e.position.x - PaddleFaceX(side)) > Radius]_vars

\* both paddles have logged a Hit
TwoHits ==
    \E i, j \in 1 .. Len(eventLogger.events) :
        /\ eventLogger.events[i].type = "hit" /\ eventLogger.events[i].player = "right"
        /\ eventLogger.events[j].type = "hit" /\ eventLogger.events[j].player = "left"

\* C20: in replay mode the key-state map has no effect: two replays of the
\* same log that differ only in which keys are pressed have identical ball
\* state, paddle positions, cursor and replay log at every tick.  Stated on
\* the steps of a replay: a key pressed or released changes the key-state map
\* alone, and a frame leaves the state that the same frame leaves with any
\* other keys pressed; so replays that agree but for the keys agree, but for
\* the keys, after every step.
C20_KeysIgnored ==
    [][game.mode = "replay" /\ game.isRunning =>
          /\ obs'.op \in {"keydown", "keyup"} => Keyless(World') = Keyless(World)
          /\ obs'.op = "frame" =>
                \A pressed \in SUBSET ReplayKeys :
                    Keyless(World') = Keyless(FrameWithKeys(pressed))]_vars

\* a frame of a replay, taken with the keys of both players pressed, in which
\* a paddle has moved and a Hit of the log was applied
C20_Witness ==
    /\ obs.op = "frame"
    /\ game.mode = "replay"
    /\ keys = ReplayKeys
    /\ Len(obs.hits) > 0
    /\ leftPaddle.y # getPaddleCenterY \/ rightPaddle.y # getPaddleCenterY

\* C21: within one replay tick the steps run in a fixed order: score-avoidance
\* evaluation, then paddle movement for both sides, then consumption of all due
\* events (with pending-move recomputation), then application of the resulting
\* ball state; a pending move installed by score avoidance in a tick is the
\* one used by that tick's paddle movement.  On a frame of a replay: the
\* avoidance is evaluated on the ball, paddles and cursor as they are before
\* the tick's events; each paddle then makes the move its pending move after
\* the avoidance asks for, whatever the events of the tick install; the events
\* consumed are the due ones; and the ball ends with the state of the last of
\* them, if there is one, else as the physics left it.
C21_TickOrder ==
    [][ReplayTick =>
          /\ \A side \in {"left", "right"} :
                PaddleOf(World', side) =
                    movePaddle(PaddleOf(TickInput, side), Avoided.pendingMoves[side]).paddle
          /\ obs'.applied = DueEvents
          /\ IF DueEvents = << >>
             THEN /\ ball' = TickInput.ball
                  /\ \A side \in {"left", "right"} :
                        replay'.pendingMoves[side] =
                            movePaddle(PaddleOf(TickInput, side),
                                       Avoided.pendingMoves[side]).move
             ELSE LET last == replay.events[DueEvents[Len(DueEvents)] + 1]
                  IN /\ ball'.x = EventBallPosition(last).x
                     /\ ball'.y = EventBallPosition(last).y
                     /\ ball'.vx = last.velocity.x
                     /\ ball'.vy = last.velocity.y]_vars

\* a replay tick past the first events of the log, after which the miss move
\* that score avoidance installed is pending and its paddle has moved by it
C21_Witness ==
    /\ obs.op = "frame"
    /\ game.mode = "replay"
    /\ obs.ran
    /\ replay.currentEventIndex > 0
    /\ \E side \in {"left", "right"} :
          /\ replay.pendingMoves[side].type = "miss"
          /\ PaddleOf(World, side).y # getPaddleCenterY

\* C22: every Score event consumed during replay is surfaced to the caller and
\* increments the scoring player's replay score by exactly one, so at any
\* point of a replay each side's score equals the number of Score events for
\* that player consumed so far (including when several events are consumed in
\* one tick).  The events consumed so far are those of the replay log.
C22_ReplayScores ==
    game.mode = "replay" \/ (obs.op = "frame" /\ obs.ran) =>
        /\ game.leftScore = ScoresOf(replay.log, "left")
        /\ game.rightScore = ScoresOf(replay.log, "right")

\* a replay tick has consumed a Score along with other events
SeveralConsumed ==
    /\ obs.op = "frame" /\ obs.ran
    /\ Len(obs.applied) >= 2
    /\ ScoresOf(replay.log, "left") + ScoresOf(replay.log, "right") >= 1

\* the Score events of the log of w at or after the cursor (indices from 0)
ScoresAhead(w) ==
    {i \in w.replay.currentEventIndex .. Len(w.replay.events) - 1 :
        w.replay.events[i + 1].type = "score"}

\* side is to dodge the Score at index i: the ball moves toward it, the log
\* has no Hit by it from the cursor up to that Score, and its paddle is in the
\* ball's way where it is or where its pending move takes it
MustDodge(w, side, i) ==
    /\ side = (IF w.ball.vx < 0 THEN "left" ELSE "right")
    /\ \A j \in w.replay.currentEventIndex .. i - 1 :
          ~(w.replay.events[j + 1].type = "hit" /\ w.replay.events[j + 1].player = side)
    /\ \/ wouldPaddleIntercept(w.ball, side, PaddleOf(w, side).y)
       \/ /\ w.replay.pendingMoves[side] # NoMove
          /\ wouldPaddleIntercept(w.ball, side, w.replay.pendingMoves[side].targetY)

\* C23: the score-avoidance scan looks only at the first Score event at or
\* after the cursor and installs a miss move only for the side the ball is
\* currently moving toward, and only if no Hit by that side is logged between
\* the cursor and that Score and the paddle would intercept the predicted ball
\* path from its current Y or from its pending target Y; otherwise it leaves
\* both pending moves unchanged.
C23_ScoreAvoidance ==
    [][ReplayTick =>
          /\ [Avoided EXCEPT !.pendingMoves = TickInput.replay.pendingMoves,
                             !.lastProcessedScoreEvent = TickInput.replay.lastProcessedScoreEvent]
                = TickInput.replay
          /\ \A side \in {"left", "right"} :
                LET old == TickInput.replay.pendingMoves[side]
                    new == Avoided.pendingMoves[side]
                    first == CHOOSE i \in ScoresAhead(TickInput) :
                                 \A j \in ScoresAhead(TickInput) : i <= j
                IN IF ScoresAhead(TickInput) # {} /\ MustDodge(TickInput, side, first)
                   THEN new = Move(calculateMissPosition(
                                       TickInput.ball, side,
                                       IF old # NoMove THEN old.targetY
                                       ELSE PaddleOf(TickInput, side).y),
                                   first, "miss")
                   ELSE new = old]_vars

\* a replay tick after which a miss move is pending that aims at a Score
\* beyond the next event of the log
C23_Witness ==
    /\ obs.op = "frame" /\ obs.ran /\ game.mode = "replay"
    /\ \E side \in {"left", "right"} :
          /\ replay.pendingMoves[side].type = "miss"
          /\ replay.pendingMoves[side].eventIndex >= replay.currentEventIndex

Waypoints == {"position_for_next_hit", "position_for_serve_followup"}

\* the paddle-motion step of this replay tick for side: [paddle, move]
Motion(side) == movePaddle(PaddleOf(TickInput, side), Avoided.pendingMoves[side])

\* the paddle-motion step of this replay tick reaches the target of side's move
Reaches(side) ==
    /\ Avoided.pendingMoves[side] # NoMove
    /\ movePaddleToTarget(PaddleOf(TickInput, side),
                          Avoided.pendingMoves[side].targetY).reached

\* C24: in the paddle-motion step a pending move of kind stage-for-next-hit or
\* stage-after-serve is removed in the tick its target is reached, while a hit
\* or miss move is only marked executed and stays installed (keeping the
\* paddle at its target) until event processing replaces or clears it.
C24_PaddleMotion ==
    [][ReplayTick =>
          \A side \in {"left", "right"} :
             LET move == Avoided.pendingMoves[side]
             IN /\ Reaches(side) /\ move.type \in Waypoints => Motion(side).move = NoMove
                /\ Reaches(side) /\ move.type \in {"hit", "miss"} =>
                      /\ Motion(side).move = [move EXCEPT !.executed = TRUE]
                      /\ Motion(side).paddle.y = clampPaddleY(move.targetY)
                /\ ~Reaches(side) => Motion(side).move = move
                /\ obs'.applied = << >> => replay'.pendingMoves[side] = Motion(side).move
                /\ replay.pendingMoves[side].type \in {"hit", "miss"}
                      /\ replay.pendingMoves[side].executed
                      /\ obs'.applied = << >>
                      => /\ replay'.pendingMoves[side] = replay.pendingMoves[side]
                         /\ PaddleOf(World', side).y
                              = clampPaddleY(replay.pendingMoves[side].targetY)]_vars

\* a replay tick after which a hit or miss move is installed and executed, its
\* paddle having moved to the target
C24_Witness ==
    /\ obs.op = "frame" /\ obs.ran /\ game.mode = "replay"
    /\ \E side \in {"left", "right"} :
          /\ replay.pendingMoves[side].type \in {"hit", "miss"}
          /\ replay.pendingMoves[side].executed
          /\ PaddleOf(World, side).y = clampPaddleY(replay.pendingMoves[side].targetY)
          /\ PaddleOf(World, side).y # getPaddleCenterY

\* the Hits by side in the log after the event at index k (indices from 0)
LaterHits(k, side) ==
    {i \in k + 1 .. Len(replay.events) - 1 :
        replay.events[i + 1].type = "hit" /\ replay.events[i + 1].player = side}

Least(S) == CHOOSE i \in S : \A j \in S : i <= j

\* the top of a paddle whose centre a Hit records, clamped to the table
RecordedTop(event, side) ==
    Max(0, Min(Height - PaddleH, event.paddlePositions[side] - PaddleH \div 2))

\* C25: when a Hit by side P is consumed: P's pending move is cleared; if a
\* later Hit by the other side exists, P receives a stage-for-next-hit move
\* whose target is that event's recorded paddle centre for P minus half the
\* paddle height, clamped to the table; and if the other side has no pending
\* move and has a later Hit, it receives a hit move whose target is the
\* inverse-bounce paddle-top computed from that Hit's recorded position and
\* outgoing velocity.  On the replay ticks that consume one event, a Hit.
C25_HitMovements ==
    [][ReplayTick /\ Len(DueEvents) = 1 /\ replay.events[DueEvents[1] + 1].type = "hit" =>
          LET k == DueEvents[1]
              P == replay.events[k + 1].player
              O == Other(P)
              later == LaterHits(k, O)
              next == replay.events[Least(later) + 1]
          IN /\ replay'.pendingMoves[P] =
                   IF later = {} THEN NoMove
                   ELSE [targetY |-> RecordedTop(next, P), eventIndex |-> Least(later),
                         type |-> "position_for_next_hit", executed |-> FALSE]
             /\ replay'.pendingMoves[O] =
                   IF Motion(O).move = NoMove /\ later # {}
                   THEN [targetY |-> calculateOptimalPaddlePosition(next),
                         eventIndex |-> Least(later), type |-> "hit", executed |-> FALSE]
                   ELSE Motion(O).move]_vars

\* a replay tick has consumed a Hit, after which the side that hit is staged
\* for the other side's next Hit and the other side has a hit move
C25_Witness ==
    /\ obs.op = "frame" /\ obs.ran /\ game.mode = "replay"
    /\ Len(obs.applied) = 1
    /\ replay.events[obs.applied[1] + 1].type = "hit"
    /\ \E P \in {"left", "right"} :
          /\ replay.events[obs.applied[1] + 1].player = P
          /\ replay.pendingMoves[P].type = "position_for_next_hit"
          /\ replay.pendingMoves[Other(P)].type = "hit"

\* C26: when a Serve is consumed both sides' pending moves are cleared first;
\* then, if the receiving side has a later Hit, the receiver gets a hit move
\* aimed at the inverse-bounce paddle-top for that Hit and the server gets a
\* stage-after-serve waypoint at the paddle position that Hit records for the
\* server (centre minus half height, clamped); if the receiver has no later
\* Hit both sides are left without a pending move.  On the replay ticks whose
\* last event consumed is a Serve.
C26_ServeMovements ==
    [][ReplayTick /\ DueEvents # << >>
         /\ replay.events[DueEvents[Len(DueEvents)] + 1].type = "serve" =>
          LET k == DueEvents[Len(DueEvents)]
              server == replay.events[k + 1].player
              receiver == Other(server)
              later == LaterHits(k, receiver)
              next == replay.events[Least(later) + 1]
          IN IF later = {}
             THEN replay'.pendingMoves = [left |-> NoMove, right |-> NoMove]
             ELSE /\ replay'.pendingMoves[receiver] =
                        [targetY |-> calculateOptimalPaddlePosition(next),
                         eventIndex |-> Least(later), type |-> "hit", executed |-> FALSE]
                  /\ replay'.pendingMoves[server] =
                        [targetY |-> RecordedTop(next, server), eventIndex |-> Least(later),
                         type |-> "position_for_serve_followup", executed |-> FALSE]]_vars

\* a replay tick has consumed a Score and the next Serve, which left the
\* receiver a hit move and the server its waypoint
C26_Witness ==
    /\ obs.op = "frame" /\ obs.ran /\ game.mode = "replay"
    /\ Len(obs.applied) = 2
    /\ replay.events[obs.applied[2] + 1].type = "serve"
    /\ \E server \in {"left", "right"} :
          /\ replay.events[obs.applied[2] + 1].player = server
          /\ replay.pendingMoves[server].type = "position_for_serve_followup"
          /\ replay.pendingMoves[Other(server)].type = "hit"

\* C27: when a Score event is consumed, the pending move of the side that
\* conceded (the side opposite to the event's scoring player) is cleared and
\* the other side's pending move is left unchanged.
C27_ScoreMovements ==
    obs.op = "calculateEventMovements" /\ obs.input[2].type = "score" =>
        /\ obs.result.pendingMoves[Other(obs.input[2].player)] = NoMove
        /\ obs.result.pendingMoves[obs.input[2].player]
             = obs.input[1].pendingMoves[obs.input[2].player]
        /\ [obs.result EXCEPT !.pendingMoves = obs.input[1].pendingMoves] = obs.input[1]

\* a Score by the left player was consumed: the right side's executed miss
\* move is cleared, the left side's waypoint is kept
C27_Witness ==
    /\ obs.op = "calculateEventMovements"
    /\ obs.input[2].type = "score" /\ obs.input[2].player = "left"
    /\ obs.input[1].pendingMoves.right.type = "miss"
    /\ obs.result.pendingMoves.right = NoMove
    /\ obs.result.pendingMoves.left.type = "position_for_next_hit"

\* the positions of a paddle that passes above and below a ball arriving at
\* the height arrival, the safety margin away from it
DodgeAbove(arrival) == arrival - Radius - PaddleH - getSafetyMargin
DodgeBelow(arrival) == arrival + Radius + getSafetyMargin
Fits(paddleY) == 0 <= paddleY /\ paddleY + PaddleH <= Height

\* C28: calculateMissPosition chooses between the dodge-above and dodge-below
\* positions as follows: when both fit inside the table it returns the one
\* requiring the smaller move from currentY; when only one fits it returns
\* that one; when neither fits it returns the table edge position that is
\* farther from the ball's predicted arrival point.  (On a table of this
\* height one of the two positions always fits.)
C28_MissChoice ==
    obs.op = "calculateMissPosition"
    /\ predictBallY(PaddleFaceX(obs.input[2]), obs.input[1]) # NoPrediction =>
        LET arrival == predictBallY(PaddleFaceX(obs.input[2]), obs.input[1])
            above == DodgeAbove(arrival)
            below == DodgeBelow(arrival)
            currentY == obs.input[3]
        IN /\ Fits(above) /\ Fits(below) =>
                 /\ obs.result \in {above, below}
                 /\ Abs(currentY - obs.result) <= Abs(currentY - above)
                 /\ Abs(currentY - obs.result) <= Abs(currentY - below)
           /\ Fits(above) /\ ~Fits(below) => obs.result = above
           /\ ~Fits(above) /\ Fits(below) => obs.result = below
           /\ ~Fits(above) /\ ~Fits(below) =>
                 /\ obs.result \in {0, Height - PaddleH}
                 /\ obs.result = 0 => Abs(arrival) >= Abs(arrival - Height)
                 /\ obs.result = Height - PaddleH => Abs(arrival - Height) >= Abs(arrival)

\* both positions fit, and the paddle goes below the ball, which is nearer
C28_Witness ==
    /\ obs.op = "calculateMissPosition"
    /\ predictBallY(PaddleFaceX(obs.input[2]), obs.input[1]) # NoPrediction
    /\ LET arrival == predictBallY(PaddleFaceX(obs.input[2]), obs.input[1])
       IN /\ Fits(DodgeAbove(arrival)) /\ Fits(DodgeBelow(arrival))
          /\ obs.result = DodgeBelow(arrival)
          /\ Abs(obs.input[3] - DodgeBelow(arrival)) < Abs(obs.input[3] - DodgeAbove(arrival))

\* the direction away from the paddle of side, toward the table
Away(side) == IF side = "left" THEN 1 ELSE -1

\* C29: after a paddle collision the ball is placed exactly one radius from
\* the paddle face on the table side with horizontal velocity pointing away
\* from that paddle, and one contact yields exactly one Hit event: the same
\* paddle does not register another collision on the following ticks while the
\* ball travels away.  In live play at one tick a frame: the collision of a
\* tick that logs a Hit leaves the ball so, and no paddle logs two Hits with
\* nothing between them.
C29_OneHitPerContact ==
    [][/\ \A side \in {"left", "right"} :
             LogsHit(side) =>
                /\ Contact(side).x = PaddleFaceX(side) + Away(side) * Radius
                /\ Contact(side).vx * Away(side) > 0
       /\ \A i \in 1 .. Len(eventLogger'.events) - 1 :
             eventLogger'.events[i].type = "hit" /\ eventLogger'.events[i + 1].type = "hit"
                => eventLogger'.events[i].player # eventLogger'.events[i + 1].player]_vars

\* two ticks after the right paddle's Hit the ball travels away from it, past
\* the reach of its face, and the log has no other Hit
C29_Witness ==
    /\ obs.op = "frame" /\ game.mode = "play"
    /\ Len(eventLogger.events) = 2
    /\ eventLogger.events[2].type = "hit" /\ eventLogger.events[2].player = "right"
    /\ engine.currentTick = eventLogger.events[2].tick + 2
    /\ ball.vx < 0
    /\ PaddleFaceX("right") - ball.x > Radius

\* the interpolation snapshot of the entities' actual positions
Snapshot ==
    [ball |-> [x |-> ball.x, y |-> ball.y], leftPaddle |-> leftPaddle.y,
     rightPaddle |-> rightPaddle.y]

\* the last step was a game start, a reset or a replay start
Restarted == obs.op \in {"start", "startReplay", "endGameTimer", "endReplayTimer"}

\* the last step was a frame of live play whose last tick served after a score
Served ==
    /\ obs.op = "frame" /\ game.mode = "play" /\ game.isRunning
    /\ eventLogger.events # << >>
    /\ eventLogger.events[Len(eventLogger.events)].type = "serve"
    /\ eventLogger.events[Len(eventLogger.events)].tick = engine.currentTick
    /\ engine.currentTick > 0

\* the last step was a frame of a replay that consumed events, the ball taking
\* the state of the last of them
Snapped == obs.op = "frame" /\ obs.ran /\ obs.changed

\* the events the last replay frame consumed include a Score
SnappedAtScore ==
    \E n \in 1 .. Len(obs.applied) : replay.events[obs.applied[n] + 1].type = "score"

SnapshotsAgree == engine.previousState = engine.currentState /\ engine.currentState = Snapshot

\* C30: immediately after any discontinuous change of entity positions (game
\* start, reset, serve after a score, replay start, and the ball snap when a
\* replayed event is consumed) the previous and current interpolation
\* snapshots are equal to each other and to the entities' actual positions.
C30_SnapshotsEqual == Restarted \/ Served \/ Snapped => SnapshotsAgree

\* what holds: the snapshots agree after a start, a reset, a serve, and a
\* replay frame that consumed a Score; after any replay frame that consumed
\* events the current snapshot is the entities' positions
SnapshotsAfterScore ==
    /\ Restarted \/ Served \/ (Snapped /\ SnappedAtScore) => SnapshotsAgree
    /\ Snapped => engine.currentState = Snapshot

\* ------------------------------------------------------------ Ball.update
\* Ball.update for a ball on a wall, one unit or one step of a returned serve
\* off it, in mid-court, or snapped beyond a wall by an imported event; still,
\* slow, at the slant of a returned serve, at serving speed or at the fastest
\* a paddle sends it, up or down.
UpdateYs ==
    {0 - Px(10), Radius, Radius + 1, Radius + 96, getCanvasCenter.y,
     Height - Radius - 96, Height - Radius - 1, Height - Radius, Height + Px(10)}
UpdateSpeeds == {0, 10, 96, BALL_INITIAL_SPEED, BALL_MAX_SPEED}
UpdateVelocities == UpdateSpeeds \cup {0 - v : v \in UpdateSpeeds}

InitUpdate ==
    \E y \in UpdateYs : \E vx \in {0 - BALL_INITIAL_SPEED, BALL_INITIAL_SPEED} :
    \E vy \in UpdateVelocities :
        Given([x |-> getCanvasCenter.x, y |-> y, vx |-> vx, vy |-> vy])

Update == Returns("Ball.update", BallUpdate(obs.input))

SpecUpdate == InitUpdate /\ [][Update]_vars

\* C31: after every Ball.update the ball's y lies in [radius, tableHeight -
\* radius]; when the update leaves the ball on the top wall its vertical
\* velocity is non-negative afterwards, on the bottom wall non-positive, and
\* its magnitude is unchanged.
C31_BallInBounds ==
    obs.op = "Ball.update" =>
        /\ Radius <= obs.result.y /\ obs.result.y <= Height - Radius
        /\ obs.result.y = Radius => obs.result.vy >= 0
        /\ obs.result.y = Height - Radius => obs.result.vy <= 0
        /\ Abs(obs.result.vy) = Abs(obs.input.vy)
        /\ obs.result.y \notin {Radius, Height - Radius} => obs.result.vy = obs.input.vy

\* a ball going up one unit under the top wall ends on the wall, going down
C31_Witness ==
    /\ obs.op = "Ball.update"
    /\ obs.input.y = Radius + 1 /\ obs.input.vy = 0 - BALL_INITIAL_SPEED
    /\ obs.result.y = Radius /\ obs.result.vy = BALL_INITIAL_SPEED

\* ------------------------------------------------------------ paddles at the edges
\* Games in which the left player holds its up key and the right player its
\* down key, and the replay of an imported log whose Hits are recorded next to
\* the walls with the ball leaving steeply toward mid-court: the paddle
\* position that produces such a bounce is beyond the table.
EdgeLog ==
    << ServeEvent([x |-> getCanvasCenter.x, y |-> getCanvasCenter.y, vx |-> 296, vy |-> 47],
                  "left", PaddleCenter(PaddleAtCenter), PaddleCenter(PaddleAtCenter), 0),
       HitEvent([x |-> getPaddleFaceXRight - Radius, y |-> Radius + Px(2), vx |-> -250, vy |-> 180],
                "right", PaddleCenter(PaddleAtCenter), PaddleCenter([y |-> 0]), 40),
       HitEvent([x |-> getPaddleFaceXLeft + Radius, y |-> Height - Radius - Px(2), vx |-> 250, vy |-> -180],
                "left", PaddleCenter([y |-> Height - PaddleH]), PaddleCenter([y |-> 0]), 90),
       ScoreEvent([x |-> Width + Radius + 100, y |-> 15000, vx |-> 250, vy |-> -180], "left", 140) >>

EdgePayloads == {JsonArray(EdgeLog)}
EdgeKeys == {"w", "ArrowDown"}
EdgeKeyGrid == 30
EdgeMaxKeyEvents == 2
EdgeMaxTick == 120
EdgeMaxSessions == 3

NextEdge ==
    \/ Start(GameDraws, GamePaces, EdgeMaxSessions)
    \/ KeyDown(EdgeKeys, EdgeKeyGrid, EdgeMaxKeyEvents)
    \/ KeyUp(EdgeKeys, EdgeKeyGrid, EdgeMaxKeyEvents)
    \/ Import(EdgePayloads, EdgeMaxSessions)
    \/ StartReplay(ReplayPaces, EdgeMaxSessions)
    \/ Frame({pace}, GameDraws, EdgeMaxTick)
    \/ TimerFire
    \/ UpdateButtons

SpecEdge == Init /\ [][NextEdge]_vars

\* the top of a paddle is on the table and so is its bottom
OnTable(p) == 0 <= p.y /\ p.y <= Height - PaddleH

\* the pending move of side aims beyond the table
AimsBeyond(side) ==
    /\ replay.pendingMoves[side] # NoMove
    /\ ~OnTable([y |-> replay.pendingMoves[side].targetY])

\* C32: in every reachable state, in live play and in replay, each paddle's y
\* lies in [0, tableHeight - paddleHeight], whatever keys are held and whatever
\* target, on the table or beyond it, a pending move drives the paddle toward.
C32_PaddlesOnTable == OnTable(leftPaddle) /\ OnTable(rightPaddle)

\* in replay a paddle driven toward a target beyond the table stands at the
\* edge of the table
C32_Witness ==
    /\ game.mode = "replay" /\ obs.op = "frame" /\ obs.ran
    /\ \E side \in Sides :
          /\ AimsBeyond(side)
          /\ PaddleOf(World, side).y \in {0, Height - PaddleH}

\* in live play a paddle whose key is held stands at the edge of the table
PaddleHeldAtEdge ==
    /\ game.mode = "play" /\ obs.op = "frame" /\ game.isRunning
    /\ \/ "w" \in keys /\ leftPaddle.y = 0
       \/ "ArrowDown" \in keys /\ rightPaddle.y = Height - PaddleH

\* a side has MAX_SCORE points in the log of the game
Decided == \E side \in Sides : ScoredBy(eventLogger.events, side) >= MAX_SCORE

\* C33: once either player's score reaches MAX_SCORE in live play the game
\* stops at that tick boundary: neither score ever exceeds MAX_SCORE, the
\* game-ending Score is the last event of the log, and no physics step is
\* executed after its tick, in the same frame or in a later one, even when a
\* frame advances several ticks.
C33_StopsAtMaxScore ==
    /\ game.leftScore <= MAX_SCORE /\ game.rightScore <= MAX_SCORE
    /\ \A side \in Sides : ScoredBy(eventLogger.events, side) <= MAX_SCORE
    /\ Decided =>
          /\ eventLogger.events[Len(eventLogger.events)].type = "score"
          /\ game.mode = "play" /\ obs.op = "frame" /\ obs.ticks # << >> =>
                obs.ticks[Len(obs.ticks)] = eventLogger.events[Len(eventLogger.events)].tick

\* ------------------------------------------------------------ the loop of src/js/Game.ts
\* An animation frame of the Game class that runs its own tick loop.
GameFrame(frameTimes, draws, maxTick) ==
    /\ game.animationId
    /\ \A i \in 1 .. Len(timers) : timers[i].remaining > 0
    /\ game.isRunning /\ game.mode = "play" => engine.currentTick < maxTick
    /\ \E dt \in frameTimes :
       \E w0 \in {PassTime(World, dt)} :
       \E w1 \in {Game_gameLoop(w0, Min(dt, Ms(FRAME_CAP)), CHOOSE d \in draws : TRUE)} :
          IF w1.serves = serves
          THEN Becomes(w1, "frame")
          ELSE \E draw \in draws :
               \E w2 \in {Game_gameLoop(w0, Min(dt, Ms(FRAME_CAP)), draw)} :
                  Becomes(w2, "frame")
    /\ UNCHANGED << keyEvents, sessions, pace, twin >>

\* Games in which every serve passes the idle paddles, the two short logs
\* imported, and the replay of either at half a tick, one tick or six ticks a
\* frame.
LoopMaxSessions == 3

NextLoop ==
    \/ Start(GameDraws, GamePaces, LoopMaxSessions)
    \/ Import(FairPayloads, LoopMaxSessions)
    \/ StartReplay(ImportPaces, LoopMaxSessions)
    \/ GameFrame({pace}, GameDraws, GameMaxTick)
    \/ TimerFire
    \/ UpdateButtons

SpecLoop == Init /\ [][NextLoop]_vars

\* the original log is what it was
LogKept == eventLogger' = eventLogger

\* C34: replay never changes the original event log: from startReplay until
\* the replay has ended and control is back in play mode, no event is appended
\* to, removed from or altered in the original log, including in the ticks of
\* the frame in which the replay ends.
C34_ReplayKeepsLog ==
    [][obs'.op = "startReplay" \/ (game.mode = "replay" /\ obs'.op = "frame") => LogKept]_vars

\* a replay frame has run ticks, and the replay has ended in it
ReplayEnded ==
    /\ obs.op = "frame" /\ obs.ticks # << >> /\ obs.called # << >>
    /\ game.mode = "play" /\ ~game.isRunning

\* the same of a frame whose ticks all ran before the replay ended
ReplayEndedLast ==
    ReplayEnded /\ obs.called[Len(obs.called)] >= obs.ticks[Len(obs.ticks)]

\* ------------------------------------------------------------ the replayed ball
\* Games the players leave to the idle paddles, at one tick or six ticks a
\* frame, and the replay of their logs at one tick or six ticks a frame.
FollowPaces == {TICK_DURATION, 6 * TICK_DURATION}
FollowMaxSessions == 2

NextFollow ==
    \/ Start(GameFirstDraws, FollowPaces, FollowMaxSessions)
    \/ Frame({pace}, GameDraws, GameMaxTick)
    \/ StartReplay(FollowPaces, FollowMaxSessions)
    \/ TimerFire

SpecFollow == Init /\ [][NextFollow]_vars

\* the angle of the first serve of the game whose log is being replayed
FirstDraw ==
    CHOOSE d \in GameFirstDraws :
        LET b == BallReset("left", d)
        IN Vec(b.vx, b.vy) = eventLogger.events[1].velocity

\* that game after tick t: the game is started again, with the same serves and
\* the paddles left alone, and run for t ticks, six ticks at a time
RECURSIVE LiveWorld(_)
LiveWorld(t) ==
    IF t <= 6
    THEN processPhysicsTicks([start(World, FirstDraw) EXCEPT !.keys = {}],
                             t * TICK_DURATION, {}, "play", CHOOSE d \in GameDraws : TRUE)
    ELSE With(LiveWorld(t - 6), LAMBDA w :
            processPhysicsTicks(w, 6 * TICK_DURATION, {}, "play",
                                CHOOSE d \in GameDraws : TRUE))

LiveBall(t) == LiveWorld(t).ball

\* a frame of a replay that goes on
Replaying == game.mode = "replay" /\ game.isRunning /\ obs.op = "frame" /\ obs.ran

\* C35: between consumed events the replayed ball follows the live ball tick
\* for tick: for a log recorded by live play, at every tick t of the replay
\* the ball's position and velocity equal those the live ball had at tick t
\* of the original run, from the first Serve at tick 0 onward.
C35_ReplayFollowsLive == Replaying => ball = LiveBall(engine.currentTick)

\* the same from the first event consumed after the first Serve onward, in
\* the first FollowTicks ticks of a replay at one tick a frame
FollowTicks == 200
FollowsAfterFirstRally ==
    /\ Replaying /\ pace = TICK_DURATION
    /\ replay.currentEventIndex > 1 /\ engine.currentTick <= FollowTicks
    => ball = LiveBall(engine.currentTick)

\* in the first rally of a replay at one tick a frame, the replayed ball is
\* where the live ball was one tick earlier
OneTickBehind ==
    Replaying /\ pace = TICK_DURATION /\ replay.currentEventIndex = 1 =>
        ball = LiveBall(engine.currentTick - 1)

\* the pending move aims at a Hit: it is a hit move or a waypoint
AimsAtHit(move) ==
    move.type \in {"hit", "position_for_next_hit", "position_for_serve_followup"}

\* no Score and no Serve lies in the log from event from up to event to
SameRally(events, from, to) ==
    \A j \in from .. to - 1 : events[j + 1].type \notin {"score", "serve"}

\* C36: whenever event processing installs a pending move of kind hit,
\* stage-for-next-hit or stage-after-serve, the Hit it targets belongs to the
\* current rally: no Score or Serve lies in the log between the event being
\* processed and the targeted Hit.  (A move that the events consumed in a tick
\* have installed is one that differs from the move the paddle-motion step
\* left; some event consumed in the tick is in the rally of its Hit.)
C36_TargetsCurrentRally ==
    [][ReplayTick /\ obs'.ran =>
          \A side \in Sides :
              LET move == replay'.pendingMoves[side]
              IN /\ AimsAtHit(move)
                 /\ move # Motion(side).move
                 /\ obs'.applied # << >>
                 => \E n \in 1 .. Len(obs'.applied) :
                        SameRally(replay.events, obs'.applied[n] + 1, move.eventIndex)]_vars

\* the same of the moves that are pending: no Score and no Serve that is still
\* to be consumed lies before the Hit a pending move aims at
PendingInRally ==
    replay.isActive =>
        \A side \in Sides :
            AimsAtHit(replay.pendingMoves[side]) =>
                SameRally(replay.events, replay.currentEventIndex,
                          replay.pendingMoves[side].eventIndex)

\* C37: while a replay is active, every installed pending move refers to an
\* event that has not been consumed yet: at the end of each updateTick,
\* pendingMoves[side].eventIndex >= currentEventIndex for each side that has a
\* pending move.
C37_MovesAhead ==
    replay.isActive =>
        \A side \in Sides :
            replay.pendingMoves[side] # NoMove =>
                replay.pendingMoves[side].eventIndex >= replay.currentEventIndex

\* the same of a replay at one tick a frame
MovesAheadAtOneTick == pace = TICK_DURATION => C37_MovesAhead

\* the step runs a reset that endGame or endReplay deferred
DeferredReset == obs'.op \in {"endGameTimer", "endReplayTimer"}

\* C38: a game or replay started by the user is never terminated by a deferred
\* reset left over from the end of a previous game or replay: the reset(false)
\* that endGame or endReplay schedules by a timer only ever runs while no
\* game and no replay is running.
C38_ResetSparesNewer == [][DeferredReset => ~game.isRunning]_vars

\* the same of a deferred reset that runs after a frame of ticks
ResetAfterFrame ==
    [][DeferredReset /\ obs.op = "frame" /\ obs.ticks # << >> => ~game.isRunning]_vars

\* ------------------------------------------------------------ prediction and flight
\* A ball in mid-court, next to a wall or on it, level, slanting or steep, at
\* serving speed toward either side, and the place it is at after 1 to
\* FlightMaxTicks ticks of Ball.update: predictBallY is asked for the ball's y
\* at the x the ball has then.
FlightMaxTicks == 40
FlightYs == {Radius, Radius + Px(5), getCanvasCenter.y, Height - Radius - Px(5), Height - Radius}
FlightSlopes == {0, 10, 47, 96, BALL_INITIAL_SPEED}
FlightVelocities == FlightSlopes \cup {0 - v : v \in FlightSlopes}

\* the ball after n calls of Ball.update
RECURSIVE Flown(_, _)
Flown(b, n) == IF n = 0 THEN b ELSE With(BallUpdate(b), LAMBDA b1 : Flown(b1, n - 1))

InitFlight ==
    \E y \in FlightYs : \E vx \in {0 - BALL_INITIAL_SPEED, BALL_INITIAL_SPEED} :
    \E vy \in FlightVelocities : \E n \in 1 .. FlightMaxTicks :
        Given(<< [x |-> getCanvasCenter.x, y |-> y, vx |-> vx, vy |-> vy], n >>)

Flight ==
    \E b \in {Flown(obs.input[1], obs.input[2])} :
        Returns("flight", << predictBallY(b.x, obs.input[1]), b >>)

SpecFlight == InitFlight /\ [][Flight]_vars

\* the ball is at a wall after one of its first n updates
RECURSIVE TouchesWall(_, _)
TouchesWall(b, n) ==
    /\ n > 0
    /\ With(BallUpdate(b), LAMBDA b1 :
            b1.y \in {Radius, Height - Radius} \/ TouchesWall(b1, n - 1))

\* C39: the Y that predictBallY predicts for the ball at targetX equals the Y
\* the ball has when repeated Ball.update steps bring it to targetX, also on a
\* trajectory that bounces off the top or the bottom wall on the way.
C39_PredictionIsFlight ==
    obs.op = "flight" => obs.result[1] = obs.result[2].y

\* the same of the trajectories that stay clear of the walls
ClearFlightPredicted ==
    obs.op = "flight" /\ ~TouchesWall(obs.input[1], obs.input[2]) =>
        obs.result[1] = obs.result[2].y

\* a trajectory that bounces, predicted right
BouncePredicted ==
    /\ obs.op = "flight"
    /\ TouchesWall(obs.input[1], obs.input[2])
    /\ obs.input[1].vy # 0
    /\ obs.result[1] = obs.result[2].y

\* ------------------------------------------------------------ the wall-folding loop
\* The loop of predictBallY on the numbers of the program.  A number of the
\* program is a double: an integer times a power of two, the integer of 53
\* bits at most, and the result of a subtraction is the double nearest to the
\* exact difference, the one with the even integer in a tie.  The model's
\* numbers are whole pixels with SignificandBits bits in place of 53, so that
\* the magnitudes at which a subtraction is inexact are numbers TLC has.
SignificandBits == 16

RECURSIVE Pow2(_)
Pow2(n) == IF n = 0 THEN 1 ELSE 2 * Pow2(n - 1)

\* the number of bits of n > 0
RECURSIVE BitLength(_)
BitLength(n) == IF n < 2 THEN 1 ELSE 1 + BitLength(n \div 2)

\* the double nearest to x
Nearest(x) ==
    IF Abs(x) < Pow2(SignificandBits) THEN x
    ELSE LET ulp == Pow2(BitLength(Abs(x)) - SignificandBits)
             down == (Abs(x) \div ulp) * ulp
             rest == Abs(x) - down
             up == IF 2 * rest > ulp \/ (2 * rest = ulp /\ (down \div ulp) % 2 = 1)
                   THEN down + ulp ELSE down
         IN Sign(x) * up

\* the condition of the loop, in pixels
OutsideWalls(y) == y < BALL_RADIUS \/ y > CANVAS_HEIGHT - BALL_RADIUS

\* one pass of the loop
FoldOnce(y) ==
    IF y < BALL_RADIUS THEN Nearest(2 * BALL_RADIUS - y)
    ELSE IF y > CANVAS_HEIGHT - BALL_RADIUS
         THEN Nearest(2 * (CANVAS_HEIGHT - BALL_RADIUS) - y)
         ELSE y

\* The extrapolated y the loop starts from: some rows of a strip around the
\* table that is FoldReach tables wide, and, for a ball of huge vertical
\* velocity or one snapped far off the table by an imported event, doubles of
\* FoldFar bits and more.
FoldReach == 8
FoldGrid == 37
FoldFar == 29
FoldStarts ==
    {k * FoldGrid - FoldReach * CANVAS_HEIGHT :
        k \in 0 .. (2 * FoldReach * CANVAS_HEIGHT) \div FoldGrid}
    \cup {Pow2(FoldFar), 0 - Pow2(FoldFar), 3 * Pow2(FoldFar - 1)}

\* predictBallY has computed y and enters the loop; obs.result is y
InitFold ==
    \E y \in FoldStarts :
        Constructed /\ obs = [NoObs EXCEPT !.op = "fold", !.input = y, !.result = y]

FoldPass ==
    /\ obs.op = "fold" /\ OutsideWalls(obs.result)
    /\ obs' = [obs EXCEPT !.result = FoldOnce(obs.result)]
    /\ UNCHANGED << ball, leftPaddle, rightPaddle, keys, engine, game, eventLogger, replay,
                    timers, disabled, interval, serves, keyEvents, sessions, pace, twin >>

FoldReturn ==
    /\ obs.op = "fold" /\ ~OutsideWalls(obs.result)
    /\ obs' = [obs EXCEPT !.op = "predictBallY"]
    /\ UNCHANGED << ball, leftPaddle, rightPaddle, keys, engine, game, eventLogger, replay,
                    timers, disabled, interval, serves, keyEvents, sessions, pace, twin >>

NextFold == FoldPass \/ FoldReturn

\* the loop runs on: the next pass is taken, and so is the return
SpecFold == InitFold /\ [][NextFold]_vars /\ WF_vars(NextFold)

\* C40: the wall-folding loop of predictBallY terminates for every ball state
\* with finite position and velocity on a table higher than the ball, so that
\* prediction, wouldPaddleIntercept and calculateMissPosition always return.
C40_FoldTerminates == <>(obs.op = "predictBallY")

\* the same of the loop started from a y whose folds are computed exactly
FoldsExactly == Abs(obs.input) + 2 * CANVAS_HEIGHT < Pow2(SignificandBits)
ExactFoldTerminates == (obs.op = "fold" /\ FoldsExactly) ~> (obs.op = "predictBallY")

\* a pass of the loop on a double so large that the fold only changes its sign
FoldAbsorbed ==
    /\ obs.op = "fold" /\ OutsideWalls(obs.result)
    /\ FoldOnce(obs.result) = 0 - obs.result

====
